---- MODULE Spec2Model ----
(***************************************************************************)
(* Model of the scrape-and-stream pipeline                                 *)
(* (src/app/api/shopify/delete-products/route.ts, second half: the         *)
(* scrape-stream route) and of the batched upload pipeline                 *)
(* (src/lib/product-uploader.ts).                                          *)
(*                                                                         *)
(* Data representation.  A product served by the source is identified by   *)
(* the page it came from and its position in that page.  A list of         *)
(* products is kept as a sequence of runs [page, lo, hi, at], each         *)
(* standing for the products lo..hi of that page in order, the first of    *)
(* them at position at (from 0) of the list; the list it denotes is the    *)
(* concatenation of the runs.  Slice, Concat and Length below are the list *)
(* operations of the code on that representation.                          *)
(***************************************************************************)
EXTENDS Integers, Sequences, FiniteSets, TLC

\* ------------------------------------------------------------------------
\* Program constants of the scrape-stream route
\* ------------------------------------------------------------------------
maxRetries == 5
initialDelay == 2000
delayBetweenPages == 3000
pageLimit == 250
warnPage == 100
safetyPage == 150
chunkSize == 100

\* ------------------------------------------------------------------------
\* Bounds of the model (inputs the environment may supply)
\* ------------------------------------------------------------------------
\* number of products a page that is not full may carry, besides 0
ShortPageSizes == {10, 249}
\* the pages at which the source may end the catalogue (a page that is not
\* full, or a 400); every other page it serves is full
EndPages == {1, 2, 3, 99, 100, 150}
\* non-2xx status codes the source may answer with, besides 429
ErrorStatuses == {400, 404, 500}

\* values of response.headers.get("Retry-After"): null when the header is
\* absent, otherwise its text as a sequence of characters
NoHeader == [present |-> FALSE, text |-> <<>>]
Header(s) == [present |-> TRUE, text |-> s]
RetryAfterValues == {NoHeader, Header(<<"1">>), Header(<<"0">>), Header(<<"W", "e", "d">>)}

VARIABLES
  spc,          \* position of the scrape-stream handler
  page,         \* route.ts: let page
  attempt,      \* fetchWithRetry: let attempt
  hasMore,      \* route.ts: let hasMore
  allProducts,  \* route.ts: let allProducts
  events,       \* the frames enqueued on the stream, in order
  reqPage,      \* page number of the most recent HTTP request (0: none yet)
  reqCount,     \* HTTP requests issued by the fetchWithRetry call in progress
  served,       \* what the source answered for each page that was parsed
  waitMs,       \* duration of the timer the handler is sleeping on
  lastResponse, \* outcome of the most recent HTTP request
  upc,          \* position of uploadProducts
  products,     \* uploadProducts: products
  batchSize,    \* uploadProducts: options.batchSize
  hasOnProgress,\* uploadProducts: whether options.onProgress is given
  idx,          \* uploadProducts: loop variable i
  tasks,        \* the uploadSingleProduct calls of the current batch
  progress,     \* uploadProducts: progress
  reports,      \* the values passed to onProgress, in order
  created,      \* per product: number of creation calls issued for it
  outcome,      \* per product: how its creation call ended
  batches,      \* number of batches submitted so far
  delays,       \* number of inter-batch delays that have elapsed
  settleOrder,  \* positions in products, in the order their uploads settled
  rpc,          \* position of the upload-scraped handler
  body,         \* upload-scraped: the request body
  response,     \* upload-scraped: the response returned
  cancelled,    \* scrape-stream: the client has cancelled the stream
  uncaught,     \* scrape-stream: an exception has left the handler uncaught
  dpc,          \* position of the URL construction of the scrape-stream handler
  raw,          \* the domain of the request body, as the parts it is made of
  cleanDomain,  \* route.ts: const cleanDomain
  baseUrl,      \* route.ts: const baseUrl
  url,          \* route.ts: const url
  urlPage,      \* the page number url was built for
  ppc,          \* position of handleScrape (scrap-products/page.tsx)
  frames,       \* page.tsx: the data lines the response body delivers
  readIdx,      \* page.tsx: number of lines read so far
  alerts,       \* page.tsx: the messages passed to alert()
  scrapeStatus, \* page.tsx: scrapeProgress.status
  activeTab,    \* page.tsx: activeTab
  scraping,     \* page.tsx: scraping
  pageProducts, \* page.tsx: allProducts.length
  scrapedCount, \* page.tsx: scrapedProducts.length
  vpc,          \* position of uploadSingleProduct for one product
  vprod,        \* uploadSingleProduct: product
  vi,           \* createProductWithVariants: index of the variant in hand
  sent,         \* the requests sent to the platform for the product, in order
  vresult,      \* what uploadSingleProduct returns
  tpc,          \* position of the JSON-Lines conversion of one description
  html,         \* stripHtml: html, as its characters
  txt,          \* convertToJsonl: the text field
  xpc,          \* position of deleteProducts
  productIds,   \* deleteProducts: productIds
  xi,           \* deleteProducts: number of ids the loop has taken
  results,      \* deleteProducts: results
  attempts,     \* the productDelete calls issued, in order, with their outcome
  mpc,          \* what the My Products page is waiting for
  shown,        \* my-products/page.tsx: products (their ids)
  selectedProducts, \* my-products/page.tsx: selectedProducts
  searchQuery,  \* my-products/page.tsx: searchQuery
  hasNextPage,  \* my-products/page.tsx: pageInfo.hasNextPage
  store,        \* the ids of the products the store holds
  asked,        \* the ids named by the most recent delete request
  kpc,          \* position of the stream reader of handleScrape
  wire,         \* the bytes of the response body not yet read
  pending,      \* the bytes the TextDecoder holds back between two reads
  buffer,       \* page.tsx: let buffer
  handled,      \* the events the switch of handleScrape was entered with
  readerAll,    \* page.tsx: const allProducts
  readerShown   \* page.tsx: scrapedProducts

scrapeVars == <<spc, page, attempt, hasMore, allProducts, events, reqPage,
                reqCount, served, waitMs, lastResponse>>
uploadVars == <<upc, products, batchSize, hasOnProgress, idx, tasks,
                progress, reports, created, outcome, batches,
                delays, settleOrder>>
routeVars == <<rpc, body, response>>
\* what the steps of the scrape-stream handler, and those of uploadProducts,
\* leave alone
clientVars == <<cancelled, uncaught>>
domainVars == <<dpc, raw, cleanDomain, baseUrl, url, urlPage>>
pageVars == <<ppc, frames, readIdx, alerts, scrapeStatus, activeTab, scraping,
              pageProducts, scrapedCount>>
singleVars == <<vpc, vprod, vi, sent, vresult>>
textVars == <<tpc, html, txt>>
deleteVars == <<xpc, productIds, xi, results, attempts>>
listVars == <<mpc, shown, selectedProducts, searchQuery, hasNextPage, store, asked>>
readerVars == <<kpc, wire, pending, buffer, handled, readerAll, readerShown>>
lateVars == <<textVars, deleteVars, listVars, readerVars>>
\* what the steps of each part leave alone
sideVars == <<domainVars, pageVars, singleVars, lateVars>>
otherVars == <<clientVars, sideVars>>
nonScrapeVars == <<uploadVars, routeVars, otherVars>>
nonUploadVars == <<scrapeVars, routeVars, otherVars>>
nonDomainVars == <<scrapeVars, uploadVars, routeVars, clientVars, pageVars, singleVars, lateVars>>
nonPageVars == <<scrapeVars, uploadVars, routeVars, clientVars, domainVars, singleVars, lateVars>>
nonSingleVars == <<scrapeVars, uploadVars, routeVars, clientVars, domainVars, pageVars, lateVars>>
coreVars == <<scrapeVars, uploadVars, routeVars, clientVars, domainVars, pageVars, singleVars>>
nonTextVars == <<coreVars, deleteVars, listVars, readerVars>>
nonDeleteVars == <<coreVars, textVars, listVars, readerVars>>
nonReaderVars == <<coreVars, textVars, deleteVars, listVars>>
vars == <<scrapeVars, uploadVars, routeVars, otherVars>>

\* ------------------------------------------------------------------------
\* Lists of products as sequences of runs
\* ------------------------------------------------------------------------
Min(a, b) == IF a < b THEN a ELSE b
Max(a, b) == IF a > b THEN a ELSE b

RunLen(r) == r.hi - r.lo + 1

\* array.length
Length(l) == IF l = <<>> THEN 0 ELSE l[Len(l)].at + RunLen(l[Len(l)])

\* [...a, ...b]
Concat(a, b) ==
  a \o [j \in 1..Len(b) |-> [b[j] EXCEPT !.at = @ + Length(a)]]

\* the products array of a page with k products
PageProducts(p, k) ==
  IF k = 0 THEN <<>> ELSE <<[page |-> p, lo |-> 1, hi |-> k, at |-> 0]>>

\* Array.prototype.slice(from, to) for 0 <= from (to may exceed the length):
\* the elements at the positions from .. to - 1
Slice(l, from, to) ==
  LET hit == {j \in 1..Len(l) : l[j].at < to /\ l[j].at + RunLen(l[j]) > from}
  IN IF hit = {} THEN <<>>
     ELSE LET first == CHOOSE j \in hit : \A i \in hit : j <= i
          IN [k \in 1..Cardinality(hit) |->
                LET r == l[first + k - 1]
                    a == Max(from, r.at)
                    b == Min(to, r.at + RunLen(r))
                IN [page |-> r.page, lo |-> r.lo + (a - r.at),
                    hi |-> r.lo + (b - r.at) - 1, at |-> a - from]]

\* canonical form of a list: adjacent runs of one page that continue each
\* other are merged, so two run sequences denote the same list iff their
\* canonical forms are equal
Canon(l) ==
  LET starts == {j \in 1..Len(l) :
                   j = 1 \/ ~(l[j].page = l[j - 1].page /\ l[j].lo = l[j - 1].hi + 1)}
      nth(k) == CHOOSE j \in starts : Cardinality({i \in starts : i < j}) = k - 1
      end(j) == IF \E i \in starts : i > j
                THEN (CHOOSE i \in starts : i > j /\ \A h \in starts : h > j => i <= h) - 1
                ELSE Len(l)
  IN [k \in 1..Cardinality(starts) |->
        [page |-> l[nth(k)].page, lo |-> l[nth(k)].lo, hi |-> l[end(nth(k))].hi,
         at |-> l[nth(k)].at]]

\* ------------------------------------------------------------------------
\* fetchWithRetry
\* ------------------------------------------------------------------------
RECURSIVE Pow2(_)
Pow2(n) == IF n = 0 THEN 1 ELSE 2 * Pow2(n - 1)

Digits == {"0", "1", "2", "3", "4", "5", "6", "7", "8", "9"}
DigitVal(c) == CASE c = "0" -> 0 [] c = "1" -> 1 [] c = "2" -> 2 [] c = "3" -> 3
                 [] c = "4" -> 4 [] c = "5" -> 5 [] c = "6" -> 6 [] c = "7" -> 7
                 [] c = "8" -> 8 [] c = "9" -> 9

\* a JavaScript number: NaN or an integer
NaN == [nan |-> TRUE, val |-> 0]
Num(n) == [nan |-> FALSE, val |-> n]

\* parseInt: the number written by the leading digits, NaN when there is none
RECURSIVE ParseDigits(_, _)
ParseDigits(s, acc) ==
  IF s = <<>> \/ Head(s) \notin Digits THEN acc
  ELSE ParseDigits(Tail(s), 10 * acc + DigitVal(Head(s)))
ParseInt(s) == IF s = <<>> \/ Head(s) \notin Digits THEN NaN ELSE Num(ParseDigits(s, 0))

\* a header value is truthy when it is present and not the empty string
Truthy(h) == h.present /\ h.text # <<>>

\* route.ts 83-85: retryAfter ? parseInt(retryAfter) * 1000
\*                            : initialDelay * Math.pow(2, attempt)
WaitTime(retryAfter, a) ==
  IF Truthy(retryAfter)
  THEN (IF ParseInt(retryAfter.text).nan THEN NaN
        ELSE Num(ParseInt(retryAfter.text).val * 1000))
  ELSE Num(initialDelay * Pow2(a))

\* setTimeout(resolve, w): the delay the timer runs for, in ms (a delay
\* that is NaN, below 1 or above 2^31 - 1 is replaced by 1)
TimerDelay(w) == IF w.nan \/ w.val < 1 \/ w.val > 2147483647 THEN 1 ELSE w.val

\* route.ts 87 and 96: attempt < maxRetries - 1
RetryAllowed(a) == a < maxRetries - 1

\* the loop running one attempt too many
LoopContinues_OneMore(a) == a <= maxRetries

\* route.ts 70: the loop condition attempt < maxRetries
LoopContinues(a) == a < maxRetries

\* ------------------------------------------------------------------------
\* Events of the stream
\* ------------------------------------------------------------------------
EvStart == [type |-> "start"]
EvFetching(p, t) == [type |-> "fetching", page |-> p, total |-> t]
EvProgress(p, f, t) == [type |-> "progress", page |-> p, fetched |-> f, total |-> t]
EvWaiting(p, t) == [type |-> "waiting", delay |-> delayBetweenPages, page |-> p, total |-> t]
EvWarning(m, p, t) == [type |-> "warning", message |-> m, page |-> p, total |-> t]
EvComplete(c) == [type |-> "complete", count |-> c]
EvProducts(c, i, n) == [type |-> "products", chunk |-> c, chunkIndex |-> i, totalChunks |-> n]
EvDone == [type |-> "done"]
EvError(m) == [type |-> "error", error |-> m]

\* Math.ceil(a / b) and Math.floor(a / b) for a >= 0, b > 0
Ceil(a, b) == (a + b - 1) \div b
Floor(a, b) == a \div b

\* a slice that drops the last product of every chunk
ChunkAt_Short(l, i) == Slice(l, i, i + chunkSize - 1)

\* route.ts 243: allProducts.slice(i, i + chunkSize)
ChunkAt(l, i) == Slice(l, i, i + chunkSize)

\* route.ts 248: Math.ceil(allProducts.length / chunkSize)
TotalChunks(l) == Ceil(Length(l), chunkSize)

\* route.ts 242-250: the loop over i = 0, chunkSize, 2 chunkSize, ... while
\* i < allProducts.length; its c-th iteration (c = 1, 2, ...) has
\* i = (c - 1) * chunkSize
LoopCount(n) == IF n <= 0 THEN 0 ELSE ((n - 1) \div chunkSize) + 1
ChunkEvents(l) ==
  LET n == Length(l)
      t == TotalChunks(l)
  IN [c \in 1..LoopCount(n) |->
        EvProducts(ChunkAt(l, (c - 1) * chunkSize),
                   Floor((c - 1) * chunkSize, chunkSize), t)]

\* a delivery that forgets the done event
DeliveryEvents_NoDone(l) == <<EvComplete(Length(l))>> \o ChunkEvents(l)

\* route.ts 233-252
DeliveryEvents(l) == <<EvComplete(Length(l))>> \o ChunkEvents(l) \o <<EvDone>>

\* route.ts 254-259
CatchEvents(m) == <<EvError(m)>>

\* a delay between pages that is not announced
WaitingEvents_None(p, t) == <<>>

\* route.ts 201-207: the event sent before the delay between two pages
WaitingEvents(p, t) == <<EvWaiting(p, t)>>

\* the pagination limit recognised from page 3 on only
IsPaginationLimit_Late(status, p) == status = 400 /\ p > 2

\* the pagination limit recognised on every page, the first included
IsPaginationLimit_AnyPage(status, p) == status = 400

\* route.ts 154
IsPaginationLimit(status, p) == status = 400 /\ p > 1

\* pagination that goes on until a page is empty
HasMoreAfter_NonEmpty(n) == n > 0

\* route.ts 194-196: hasMore after a non-empty page of n products
HasMoreAfter(n) == ~(n < pageLimit)

\* route.ts 215
WarnReached(p) == p >= warnPage

\* a safety limit that lets one more page through
SafetyExceeded_Late(p) == p > safetyPage + 1

\* route.ts 224
SafetyExceeded(p) == p > safetyPage

\* route.ts 215-230: the events of the two page checks at the end of an iteration
LimitEvents(p, t) ==
  (IF WarnReached(p) THEN <<EvWarning("reached", p, t)>> ELSE <<>>)
  \o (IF SafetyExceeded(p) THEN <<EvWarning("stopping", p, t)>> ELSE <<>>)

\* ------------------------------------------------------------------------
\* Bounds of the upload model
\* ------------------------------------------------------------------------
MaxProducts == 3
MaxBatchSize == 3
\* the products an upload may be given: title, number of variants, number
\* of images
ProductKinds == {[title |-> "A", variants |-> 1, images |-> 0],
                 [title |-> "B", variants |-> 2, images |-> 2]}

\* ------------------------------------------------------------------------
\* The source: what one HTTP request for a page may come back with
\* ------------------------------------------------------------------------
\* a body that is a product list of n products (all with a handle or not),
\* a body that is not JSON, a JSON body whose products field is not a list
ListBody(n, h) == [shape |-> "list", count |-> n, handles |-> h]
NotJson == [shape |-> "notjson", count |-> 0, handles |-> TRUE]
NoList == [shape |-> "nolist", count |-> 0, handles |-> TRUE]
PageSizes == {0, pageLimit} \cup ShortPageSizes
Bodies == {ListBody(n, TRUE) : n \in PageSizes}
          \cup {ListBody(n, FALSE) : n \in PageSizes \ {0}}
          \cup {NotJson, NoList}

Responses ==
  {[status |-> 200, retryAfter |-> NoHeader, body |-> b] : b \in Bodies}
  \cup {[status |-> 429, retryAfter |-> h, body |-> NotJson] : h \in RetryAfterValues}
  \cup {[status |-> c, retryAfter |-> NoHeader, body |-> NotJson] : c \in ErrorStatuses}

\* the answers with which a source ends its catalogue
EndsCatalogue(r) ==
  \/ r.status = 400
  \/ r.status = 200 /\ r.body.shape = "list" /\ r.body.handles
     /\ r.body.count < pageLimit

\* Response.ok
Ok(status) == status >= 200 /\ status <= 299

NoResponse == [kind |-> "none", status |-> 0, shape |-> "none", retryAfter |-> NoHeader]
NetworkFailure == [kind |-> "neterr", status |-> 0, shape |-> "none", retryAfter |-> NoHeader]
HttpResponse(r) == [kind |-> "http", status |-> r.status,
                    shape |-> IF Ok(r.status) THEN r.body.shape ELSE "none",
                    retryAfter |-> r.retryAfter]

ErrMsg(text, status) == [text |-> text, status |-> status]

\* ------------------------------------------------------------------------
\* The scrape-stream handler (route.ts 106-272)
\* ------------------------------------------------------------------------
IdleScrape ==
  /\ spc = "off" /\ page = 0 /\ attempt = 0 /\ hasMore = FALSE
  /\ allProducts = <<>> /\ events = <<>> /\ reqPage = 0 /\ reqCount = 0
  /\ served = <<>> /\ waitMs = 0 /\ lastResponse = NoResponse

\* nothing of the stream exists yet
ScrapeFresh ==
  /\ page = 0 /\ attempt = 0 /\ hasMore = FALSE
  /\ allProducts = <<>> /\ events = <<>> /\ reqPage = 0 /\ reqCount = 0
  /\ served = <<>> /\ waitMs = 0 /\ lastResponse = NoResponse

\* the handler has been invoked with a domain; the stream is not yet started
ScrapeStart == spc = "request" /\ ScrapeFresh

\* the client reads the stream and nothing has been thrown
IdleClient == cancelled = FALSE /\ uncaught = FALSE

\* the parts that are not running
IdleDomain ==
  /\ dpc = "off" /\ raw = <<>> /\ cleanDomain = <<>> /\ baseUrl = <<>>
  /\ url = <<>> /\ urlPage = 0
IdlePage ==
  /\ ppc = "off" /\ frames = <<>> /\ readIdx = 0 /\ alerts = <<>>
  /\ scrapeStatus = "" /\ activeTab = "scrape" /\ scraping = FALSE
  /\ pageProducts = 0 /\ scrapedCount = 0
IdleSingle ==
  /\ vpc = "off" /\ vprod = <<>> /\ vi = 0 /\ sent = <<>> /\ vresult = <<>>
IdleText == tpc = "off" /\ html = <<>> /\ txt = <<>>
NoResults == [successful |-> 0, failed |-> 0, errors |-> <<>>]
IdleDelete ==
  /\ xpc = "off" /\ productIds = <<>> /\ xi = 0 /\ results = NoResults
  /\ attempts = <<>>
IdleList ==
  /\ mpc = "off" /\ shown = <<>> /\ selectedProducts = {} /\ searchQuery = ""
  /\ hasNextPage = FALSE /\ store = {} /\ asked = <<>>
IdleReader ==
  /\ kpc = "off" /\ wire = <<>> /\ pending = <<>> /\ buffer = <<>> /\ handled = <<>>
  /\ readerAll = <<>> /\ readerShown = <<>>
IdleLate == IdleText /\ IdleDelete /\ IdleList /\ IdleReader
IdleSide == IdleDomain /\ IdlePage /\ IdleSingle /\ IdleLate

SetScrape(s, p, a, h, l, e, rp, rc, sv, w, lr) ==
  /\ spc' = s /\ page' = p /\ attempt' = a /\ hasMore' = h
  /\ allProducts' = l /\ events' = e /\ reqPage' = rp /\ reqCount' = rc
  /\ served' = sv /\ waitMs' = w /\ lastResponse' = lr

\* route.ts 254-260: the catch block; the stream is closed after the error event
Throw(m, lr) ==
  SetScrape("closed", page, 0, hasMore, allProducts, events \o CatchEvents(m),
            reqPage, 0, served, 0, lr)

\* route.ts 233-253: delivery of the result; the stream is closed after done
Deliver(e, p, h, l, sv, lr) ==
  SetScrape("closed", p, 0, h, l, e \o DeliveryEvents(l), reqPage, 0, sv, 0, lr)

\* route.ts 142-145: top of the loop: the fetching event and the first
\* request of fetchWithRetry for page p
FetchPage(e, p, l, sv, lr) ==
  SetScrape("fetch", p, 0, TRUE, l, e \o <<EvFetching(p, Length(l))>>,
            p, 1, sv, 0, lr)

\* route.ts 213-231 and the loop condition at 141: what follows the
\* inter-page delay (or follows page++ directly when there is no delay)
AfterDelay(e, p, h, l, sv, lr) ==
  LET e2 == e \o LimitEvents(p, Length(l))
  IN IF SafetyExceeded(p) THEN Deliver(e2, p, h, l, sv, lr)
     ELSE IF h THEN FetchPage(e2, p, l, sv, lr)
     ELSE Deliver(e2, p, h, l, sv, lr)

\* route.ts 123-145: the stream starts: start event, then the first iteration
StartStream ==
  /\ spc = "request"
  /\ FetchPage(<<EvStart>>, 1, <<>>, <<>>, NoResponse)
  /\ UNCHANGED nonScrapeVars

\* route.ts 70 (attempt++ and the loop condition) and 103: the next attempt
\* of fetchWithRetry, or its throw when the attempts are used up
NextAttempt(lr) ==
  IF LoopContinues(attempt + 1)
  THEN SetScrape("fetch", page, attempt + 1, hasMore, allProducts, events,
                 page, reqCount + 1, served, 0, lr)
  ELSE Throw(ErrMsg("fetch failed", 0), lr)

\* route.ts 94-100: fetch rejects (network failure)
FetchFails ==
  /\ spc = "fetch"
  /\ IF RetryAllowed(attempt)
     THEN SetScrape("retryWait", page, attempt, hasMore, allProducts, events,
                    reqPage, reqCount, served,
                    TimerDelay(WaitTime(NoHeader, attempt)), NetworkFailure)
     ELSE NextAttempt(NetworkFailure)
  /\ UNCHANGED nonScrapeVars

\* route.ts 147-231: the loop body after fetchWithRetry has returned r
HandleResponse(r) ==
  LET lr == HttpResponse(r)
      n == r.body.count
      l2 == Concat(allProducts, PageProducts(page, n))
      sv2 == Append(served, [page |-> page, count |-> n])
      e2 == events \o <<EvProgress(page, n, Length(l2))>>
  IN IF ~Ok(r.status)
     THEN IF r.status = 404 THEN Throw(ErrMsg("Store not found", 0), lr)
          ELSE IF IsPaginationLimit(r.status, page)
          THEN Deliver(events \o <<EvWarning("bad request", page, Length(allProducts))>>,
                       page, FALSE, allProducts, served, lr)
          ELSE Throw(ErrMsg("Failed to fetch products", r.status), lr)
     ELSE IF r.body.shape = "notjson" THEN Throw(ErrMsg("Unexpected token", 0), lr)
     ELSE IF r.body.shape = "nolist"
     THEN Throw(ErrMsg("Invalid response format from store", 0), lr)
     ELSE IF n = 0 THEN Deliver(events, page, FALSE, allProducts, sv2, lr)
     ELSE IF ~r.body.handles THEN Throw(ErrMsg("Invalid product object", 0), lr)
     ELSE IF HasMoreAfter(n) /\ delayBetweenPages > 0
     THEN SetScrape("pageWait", page + 1, 0, TRUE, l2,
                    e2 \o WaitingEvents(page + 1, Length(l2)),
                    reqPage, 0, sv2, TimerDelay(Num(delayBetweenPages)), lr)
     ELSE AfterDelay(e2, page + 1, HasMoreAfter(n), l2, sv2, lr)

\* route.ts 81-91: the response is a 429 and a retry is left: wait
FetchRateLimited ==
  /\ spc = "fetch"
  /\ \E r \in Responses :
       /\ r.status = 429
       /\ RetryAllowed(attempt)
       /\ SetScrape("retryWait", page, attempt, hasMore, allProducts, events,
                    reqPage, reqCount, served,
                    TimerDelay(WaitTime(r.retryAfter, attempt)), HttpResponse(r))
  /\ UNCHANGED nonScrapeVars

\* route.ts 93: fetchWithRetry returns the response (any status but a 429
\* with a retry left) and the loop body handles it
FetchReturns ==
  /\ spc = "fetch"
  /\ \E r \in Responses :
       /\ ~(r.status = 429 /\ RetryAllowed(attempt))
       /\ EndsCatalogue(r) => page \in EndPages
       /\ HandleResponse(r)
  /\ UNCHANGED nonScrapeVars

\* route.ts 88-89 and 98: the backoff timer fires
RetryWaitDone ==
  /\ spc = "retryWait"
  /\ NextAttempt(lastResponse)
  /\ UNCHANGED nonScrapeVars

\* route.ts 208-210: the inter-page timer fires
PageWaitDone ==
  /\ spc = "pageWait"
  /\ AfterDelay(events, page, hasMore, allProducts, served, lastResponse)
  /\ UNCHANGED nonScrapeVars

ScrapeNext ==
  \/ StartStream
  \/ FetchFails
  \/ FetchRateLimited
  \/ FetchReturns
  \/ RetryWaitDone
  \/ PageWaitDone

\* ------------------------------------------------------------------------
\* uploadProducts and uploadSingleProduct (product-uploader.ts)
\* ------------------------------------------------------------------------
NoCurrent == "undefined"

IdleUpload ==
  /\ upc = "off" /\ products = <<>> /\ batchSize = 0 /\ hasOnProgress = FALSE
  /\ idx = 0 /\ tasks = <<>>
  /\ progress = [total |-> 0, completed |-> 0, failed |-> 0,
                 current |-> NoCurrent, errors |-> <<>>]
  /\ reports = <<>> /\ created = <<>> /\ outcome = <<>>
  /\ batches = 0 /\ delays = 0 /\ settleOrder = <<>>

ProductLists == UNION {[1..n -> ProductKinds] : n \in 0..MaxProducts}

\* product-uploader.ts 214-225: uploadProducts has been called
UploadStart ==
  /\ upc = "call"
  /\ products \in ProductLists
  /\ batchSize \in 1..MaxBatchSize
  /\ hasOnProgress \in BOOLEAN
  /\ idx = 0 /\ tasks = <<>>
  /\ progress = [total |-> Len(products), completed |-> 0, failed |-> 0,
                 current |-> NoCurrent, errors |-> <<>>]
  /\ reports = <<>>
  /\ created = [k \in 1..Len(products) |-> 0]
  /\ outcome = [k \in 1..Len(products) |-> "none"]
  /\ batches = 0 /\ delays = 0 /\ settleOrder = <<>>

\* batches and delays observe the run, they are not state of the program:
\* they count the batches and the delays up to MaxRounds, one more than any
\* run over MaxProducts products with a positive batch size needs, and stay
\* there, so that a loop that never ends is a finite cycle of states
MaxRounds == MaxProducts + 1
Count(c) == Min(c + 1, MaxRounds)

\* product-uploader.ts 229: products.slice(i, i + batchSize), as the
\* positions in products of the elements of the batch
BatchRange(i) == (i + 1)..Min(i + batchSize, Len(products))
Batch(i) == [j \in 1..Cardinality(BatchRange(i)) |-> products[i + j]]

\* what uploadSingleProduct returns
Success == [success |-> TRUE, error |-> ""]
Failure(m) == [success |-> FALSE, error |-> m]
Pending == [success |-> FALSE, error |-> "pending"]

\* a creation result that overlooks the user errors of the platform
CreateResult_IgnoreUserErrors(o) ==
  IF o \in {"ok", "userError"} THEN Success ELSE Failure("Shopify API Error")

\* product-uploader.ts 126-135 and 194-199, shopify-admin-fetch request
\* 41-66: the result of a product whose creation call ended with outcome o
\* ("ok", "userError": the platform reports user errors, "thrown": HTTP or
\* GraphQL error).  request throws on user errors, so both failures reach
\* the catch block of uploadSingleProduct
CreateResult(o) ==
  IF o = "ok" THEN Success
  ELSE IF o = "userError" THEN Failure("User Error")
  ELSE Failure("Shopify API Error")

\* product-uploader.ts 240
CountsAsCompleted(t) == t.pc = "settled" /\ t.result.success

\* a tally that counts a failed product as completed too
RECURSIVE Tally_Both(_, _, _, _)
Tally_Both(pr, ts, batch, j) ==
  IF j > Len(ts) THEN pr
  ELSE Tally_Both([pr EXCEPT !.completed = @ + 1,
                             !.failed = IF ts[j].result.success THEN @ ELSE @ + 1,
                             !.errors = IF ts[j].result.success THEN @
                                        ELSE Append(@, [productTitle |-> batch[j].title,
                                                        error |-> ts[j].result.error])],
                  ts, batch, j + 1)

\* a tally made as the uploads settle: it takes the tasks of the batch in
\* the order in which they settled
RECURSIVE Tally_ByCompletion(_, _, _, _)
Tally_ByCompletion(pr, ts, batch, j) ==
  IF j > Len(ts) THEN pr
  ELSE LET h == settleOrder[Len(settleOrder) - Len(ts) + j] - idx
       IN Tally_ByCompletion(
            IF CountsAsCompleted(ts[h])
            THEN [pr EXCEPT !.completed = @ + 1]
            ELSE [pr EXCEPT !.failed = @ + 1,
                            !.errors = Append(@, [productTitle |-> batch[h].title,
                                                  error |-> ts[h].result.error])],
            ts, batch, j + 1)

\* product-uploader.ts 237-252: results.forEach over the settled batch
RECURSIVE Tally(_, _, _, _)
Tally(pr, ts, batch, j) ==
  IF j > Len(ts) THEN pr
  ELSE Tally(IF CountsAsCompleted(ts[j])
             THEN [pr EXCEPT !.completed = @ + 1]
             ELSE [pr EXCEPT !.failed = @ + 1,
                             !.errors = Append(@, [productTitle |-> batch[j].title,
                                                   error |-> ts[j].result.error])],
             ts, batch, j + 1)

\* product-uploader.ts 256: batch[batch.length - 1]?.title
LastTitle(batch) == IF batch = <<>> THEN NoCurrent ELSE batch[Len(batch)].title

\* product-uploader.ts 257: { ...progress }: the scalar fields are copied,
\* errors is the same array object as progress.errors
Snapshot(pr) == [total |-> pr.total, completed |-> pr.completed,
                 failed |-> pr.failed, current |-> pr.current]

\* product-uploader.ts 257 and 247: the contents of the errors field of the
\* k-th value passed to onProgress, as the callback's holder sees them now:
\* the spread copies the reference, so they are those of progress.errors
ErrorsSeen(k) == progress.errors

\* a loop that never sleeps between batches
NeedsDelay_Never(i) == FALSE

\* product-uploader.ts 261
NeedsDelay(i) == i + batchSize < Len(products)

SetUpload(u, i, ts, pr, rp, cr, b, d) ==
  /\ upc' = u /\ idx' = i /\ tasks' = ts /\ progress' = pr /\ reports' = rp
  /\ created' = cr /\ batches' = b /\ delays' = d
  /\ UNCHANGED <<products, batchSize, hasOnProgress>>

\* product-uploader.ts 228-234: the loop condition, then the batch is
\* sliced and every product of it is handed to uploadSingleProduct, which
\* runs up to the creation request; or the loop ends and progress is returned
EnterLoop(i, pr, rp, d) ==
  IF i < Len(products)
  THEN SetUpload("batch", i,
                 [j \in 1..Len(Batch(i)) |-> [pc |-> "create", result |-> Pending]],
                 pr, rp,
                 [k \in 1..Len(products) |->
                    IF k \in BatchRange(i) THEN created[k] + 1 ELSE created[k]],
                 Count(batches), d)
  ELSE SetUpload("returned", i, <<>>, pr, rp, created, batches, d)

\* product-uploader.ts 190-199: the promise of the product at position k
\* settles when its task reaches its return statement
SettledNext(t, k) == IF t.pc = "settled" THEN Append(settleOrder, k) ELSE settleOrder

BeginUpload ==
  /\ upc = "call"
  /\ EnterLoop(0, progress, reports, delays)
  /\ UNCHANGED <<outcome, settleOrder, nonUploadVars>>

\* product-uploader.ts 126-140 with shopify-mutations.ts 137-146: the
\* creation request of the j-th product of the batch is answered
CreateResponds ==
  /\ upc = "batch"
  /\ \E j \in 1..Len(tasks), o \in {"ok", "userError", "thrown"} :
       /\ tasks[j].pc = "create"
       /\ outcome' = [outcome EXCEPT ![idx + j] = o]
       /\ LET t == IF ~CreateResult(o).success
                   THEN [pc |-> "settled", result |-> CreateResult(o)]
                   ELSE IF Batch(idx)[j].variants > 0
                   THEN [pc |-> "variants", result |-> Pending]
                   ELSE IF Batch(idx)[j].images > 0
                   THEN [pc |-> "settle", result |-> Pending]
                   ELSE [pc |-> "settled", result |-> Success]
          IN /\ tasks' = [tasks EXCEPT ![j] = t]
             /\ settleOrder' = SettledNext(t, idx + j)
  /\ UNCHANGED <<upc, products, batchSize, hasOnProgress, idx, progress,
                 reports, created, batches, delays, nonUploadVars>>

\* shopify-mutations.ts 145-208: the variant calls of the j-th product are
\* over; whatever they did, the failure is caught and the creation response
\* is returned; product-uploader.ts 140-143 then starts the settle delay
VariantsDone ==
  /\ upc = "batch"
  /\ \E j \in 1..Len(tasks) :
       /\ tasks[j].pc = "variants"
       /\ LET t == IF Batch(idx)[j].images > 0
                   THEN [pc |-> "settle", result |-> Pending]
                   ELSE [pc |-> "settled", result |-> Success]
          IN /\ tasks' = [tasks EXCEPT ![j] = t]
             /\ settleOrder' = SettledNext(t, idx + j)
  /\ UNCHANGED <<upc, products, batchSize, hasOnProgress, idx, progress,
                 reports, created, outcome, batches, delays, nonUploadVars>>

\* product-uploader.ts 143-162: the 500 ms timer fires and the media
\* request is sent
SettleDone ==
  /\ upc = "batch"
  /\ \E j \in 1..Len(tasks) :
       /\ tasks[j].pc = "settle"
       /\ tasks' = [tasks EXCEPT ![j] = [pc |-> "media", result |-> Pending]]
  /\ UNCHANGED <<upc, products, batchSize, hasOnProgress, idx, progress,
                 reports, created, outcome, batches, delays, settleOrder,
                 nonUploadVars>>

\* product-uploader.ts 158-193: the media request is answered or fails;
\* either way the product is reported as a success
MediaResponds ==
  /\ upc = "batch"
  /\ \E j \in 1..Len(tasks), o \in {"ok", "userError", "thrown"} :
       /\ tasks[j].pc = "media"
       /\ tasks' = [tasks EXCEPT ![j] = [pc |-> "settled", result |-> Success]]
       /\ settleOrder' = Append(settleOrder, idx + j)
  /\ UNCHANGED <<upc, products, batchSize, hasOnProgress, idx, progress,
                 reports, created, outcome, batches, delays, nonUploadVars>>

\* product-uploader.ts 232-264: Promise.allSettled resolves: the results are
\* tallied, progress is reported, and the loop either sleeps or goes on
BatchSettled ==
  /\ upc = "batch"
  /\ \A j \in 1..Len(tasks) : tasks[j].pc = "settled"
  /\ LET tallied == Tally(progress, tasks, Batch(idx), 1)
         pr == IF hasOnProgress
               THEN [tallied EXCEPT !.current = LastTitle(Batch(idx))]
               ELSE tallied
         rp == IF hasOnProgress THEN Append(reports, Snapshot(pr)) ELSE reports
     IN IF NeedsDelay(idx)
        THEN SetUpload("delay", idx, <<>>, pr, rp, created, batches, delays)
        ELSE EnterLoop(idx + batchSize, pr, rp, delays)
  /\ UNCHANGED <<outcome, settleOrder, nonUploadVars>>

\* product-uploader.ts 262 and 228: the inter-batch timer fires, i += batchSize
DelayDone ==
  /\ upc = "delay"
  /\ EnterLoop(idx + batchSize, progress, reports, Count(delays))
  /\ UNCHANGED <<outcome, settleOrder, nonUploadVars>>

\* ------------------------------------------------------------------------
\* The upload-scraped endpoint (upload-scraped/route.ts) and validateProducts
\* ------------------------------------------------------------------------
\* a product of a request body: its title ("" when it has none), whether it
\* has a variants field, the price of each of its variants ("" when the
\* variant has none), and the number of its images
BodyProduct(t, hv, ps, im) == [title |-> t, hasVariants |-> hv, prices |-> ps, images |-> im]
BodyProducts ==
  {BodyProduct("A", TRUE, <<"10">>, 0), BodyProduct("B", TRUE, <<"10", "20">>, 2),
   BodyProduct("", TRUE, <<"10">>, 0), BodyProduct("A", FALSE, <<>>, 0),
   BodyProduct("A", TRUE, <<>>, 0), BodyProduct("B", TRUE, <<"", "">>, 0),
   BodyProduct("", TRUE, <<"">>, 0), BodyProduct("", FALSE, <<>>, 0)}
\* batchSize of a request body (10 when the body has none)
BodyBatchSizes == 0..MaxBatchSize
\* a body is not JSON, is JSON without a products array, or has one
Body(sh, it, bs) == [shape |-> sh, items |-> it, batchSize |-> bs]
RequestBodies ==
  {Body("unparsable", <<>>, 10), Body("noarray", <<>>, 10)}
  \cup {Body("array", it, bs) :
          it \in UNION {[1..n -> BodyProducts] : n \in 0..MaxProducts},
          bs \in BodyBatchSizes}

NoReply == [success |-> FALSE, status |-> 0, error |-> "", details |-> <<>>]
Reply(ok, st, e, d) == [success |-> ok, status |-> st, error |-> e, details |-> d]

IdleRoute == rpc = "off" /\ body = Body("noarray", <<>>, 10) /\ response = NoReply

\* the entries of validation.errors
MissingTitle(i) == [kind |-> "missing title", index |-> i, title |-> "", variant |-> 0]
NoVariants(t) == [kind |-> "no variants", index |-> 0, title |-> t, variant |-> 0]
MissingPrice(t, v) == [kind |-> "missing price", index |-> 0, title |-> t, variant |-> v]

\* product-uploader.ts 305-313: variants.forEach, vIndex from 0
RECURSIVE VariantErrors(_, _)
VariantErrors(p, v) ==
  IF v > Len(p.prices) THEN <<>>
  ELSE (IF p.prices[v] = "" THEN <<MissingPrice(p.title, v - 1)>> ELSE <<>>)
       \o VariantErrors(p, v + 1)

\* product-uploader.ts 298-313: the body of products.forEach for the product
\* at index i (from 0)
ProductErrors(p, i) ==
  (IF p.title = "" THEN <<MissingTitle(i)>> ELSE <<>>)
  \o (IF ~p.hasVariants \/ Len(p.prices) = 0 THEN <<NoVariants(p.title)>> ELSE <<>>)
  \o (IF p.hasVariants THEN VariantErrors(p, 1) ELSE <<>>)

RECURSIVE ErrorsFrom(_, _)
ErrorsFrom(items, k) ==
  IF k > Len(items) THEN <<>>
  ELSE ProductErrors(items[k], k - 1) \o ErrorsFrom(items, k + 1)

\* a validation that stops at the first violation
ValidateProducts_FailFast(items) ==
  IF Len(items) = 0 THEN <<[kind |-> "no products", index |-> 0, title |-> "", variant |-> 0]>>
  ELSE IF ErrorsFrom(items, 1) = <<>> THEN <<>>
  ELSE <<Head(ErrorsFrom(items, 1))>>

\* product-uploader.ts 287-320: validateProducts, its errors (valid is
\* errors.length === 0)
ValidateProducts(items) ==
  IF Len(items) = 0 THEN <<[kind |-> "no products", index |-> 0, title |-> "", variant |-> 0]>>
  ELSE ErrorsFrom(items, 1)

\* the ScrapedProduct handed to uploadProducts, as the upload model keeps it
Uploaded(p) == [title |-> p.title, variants |-> Len(p.prices), images |-> p.images]

\* the handler has been invoked with a request
RouteStart ==
  /\ rpc = "request" /\ body \in RequestBodies /\ response = NoReply

\* upload-scraped/route.ts 46-49 with product-uploader.ts 214-225:
\* uploadProducts is called with the products and the batchSize of the body
CallUpload(items, bs) ==
  /\ upc' = "call"
  /\ products' = [k \in 1..Len(items) |-> Uploaded(items[k])]
  /\ batchSize' = bs
  /\ hasOnProgress' = FALSE
  /\ idx' = 0 /\ tasks' = <<>>
  /\ progress' = [total |-> Len(items), completed |-> 0, failed |-> 0,
                  current |-> NoCurrent, errors |-> <<>>]
  /\ reports' = <<>>
  /\ created' = [k \in 1..Len(items) |-> 0]
  /\ outcome' = [k \in 1..Len(items) |-> "none"]
  /\ batches' = 0 /\ delays' = 0 /\ settleOrder' = <<>>

\* upload-scraped/route.ts 15-49 and 55-65: the body is parsed and
\* validated; a failure is answered at once, otherwise the client is made
\* (shopify-admin-fetch createShopifyAdminClient throws when the store is
\* not configured) and the upload starts
RouteValidate ==
  /\ rpc = "request"
  /\ IF body.shape = "unparsable"
     THEN /\ response' = Reply(FALSE, 500, "Unexpected token", <<>>)
          /\ rpc' = "responded"
          /\ UNCHANGED uploadVars
     ELSE IF body.shape = "noarray"
     THEN /\ response' = Reply(FALSE, 400, "Products array is required", <<>>)
          /\ rpc' = "responded"
          /\ UNCHANGED uploadVars
     ELSE IF ValidateProducts(body.items) # <<>>
     THEN /\ response' = Reply(FALSE, 400, "Product validation failed",
                               ValidateProducts(body.items))
          /\ rpc' = "responded"
          /\ UNCHANGED uploadVars
     ELSE \/ /\ CallUpload(body.items, body.batchSize)
             /\ rpc' = "upload"
             /\ UNCHANGED response
          \/ /\ response' = Reply(FALSE, 500, "SHOPIFY_STORE_DOMAIN is not set", <<>>)
             /\ rpc' = "responded"
             /\ UNCHANGED uploadVars
  /\ UNCHANGED <<body, scrapeVars, otherVars>>

\* upload-scraped/route.ts 46-54: uploadProducts has returned
RouteRespond ==
  /\ rpc = "upload" /\ upc = "returned"
  /\ response' = Reply(TRUE, 200, "", <<>>)
  /\ rpc' = "responded"
  /\ UNCHANGED <<body, scrapeVars, uploadVars, otherVars>>

UploadNext ==
  \/ BeginUpload
  \/ CreateResponds
  \/ VariantsDone
  \/ SettleDone
  \/ MediaResponds
  \/ BatchSettled
  \/ DelayDone

\* ------------------------------------------------------------------------
\* The scrape-stream handler as a whole: request parsing (route.ts 106-121)
\* and a client that cancels the stream
\* ------------------------------------------------------------------------
\* what the body of a scrape-stream request may be
ScrapeBodies == {"domain", "no domain", "unparsable"}

\* route.ts 108-123: request.json() is awaited outside any try block, so a
\* body that is not JSON rejects the handler; a body without a domain is
\* answered 400; otherwise the stream is constructed
ParseRequest ==
  /\ spc = "invoked"
  /\ \E b \in ScrapeBodies :
       /\ spc' = CASE b = "unparsable" -> "rejected"
                   [] b = "no domain" -> "badrequest"
                   [] OTHER -> "request"
       /\ uncaught' = (b = "unparsable")
  /\ UNCHANGED <<page, attempt, hasMore, allProducts, events, reqPage, reqCount,
                 served, waitMs, lastResponse, cancelled, uploadVars, routeVars, sideVars>>

\* the steps of the handler while the client reads the stream
OpenStep == ~cancelled /\ ScrapeNext

\* the client cancels the stream (closes the connection) while the handler
\* is waiting for a response or a timer
ClientCancels ==
  /\ spc \in {"fetch", "retryWait", "pageWait"}
  /\ ~cancelled
  /\ cancelled' = TRUE
  /\ UNCHANGED <<scrapeVars, uncaught, uploadVars, routeVars, sideVars>>

\* route.ts 70-100: the steps of fetchWithRetry that enqueue nothing go on
\* after the stream was cancelled
QuietStep ==
  /\ cancelled
  /\ \/ RetryAllowed(attempt) /\ FetchFails
     \/ FetchRateLimited
     \/ LoopContinues(attempt + 1) /\ RetryWaitDone

\* the next step of the handler calls sendUpdate or throws
NextStepEnqueues ==
  \/ spc = "pageWait"
  \/ spc = "fetch"
  \/ spc = "retryWait" /\ ~LoopContinues(attempt + 1)

\* route.ts 125-127 and 254-261: on a cancelled stream controller.enqueue
\* throws; the catch block calls sendUpdate again, which throws again, and
\* nothing catches that: the promise of start() is rejected
EnqueueOnClosed ==
  /\ cancelled /\ NextStepEnqueues
  /\ spc' = "aborted"
  /\ uncaught' = TRUE
  /\ UNCHANGED <<page, attempt, hasMore, allProducts, events, reqPage, reqCount,
                 served, waitMs, lastResponse, cancelled, uploadVars, routeVars, sideVars>>

HandlerNext ==
  \/ ParseRequest
  \/ OpenStep
  \/ ClientCancels
  \/ QuietStep
  \/ EnqueueOnClosed

\* ------------------------------------------------------------------------
\* The URL of a page request (shopify-scraper.ts extractDomain and
\* buildProductsUrl, route.ts 130-144).  A string is a sequence of
\* characters; a page number is written by ToString
\* ------------------------------------------------------------------------
Http == <<"h", "t", "t", "p", ":", "/", "/">>
Https == <<"h", "t", "t", "p", "s", ":", "/", "/">>
Www == <<"w", "w", "w", ".">>
ProductsJson == <<"/", "p", "r", "o", "d", "u", "c", "t", "s", ".", "j", "s", "o", "n">>
Limit250 == <<"l", "i", "m", "i", "t", "=", "2", "5", "0">>
PageEq == <<"p", "a", "g", "e", "=">>

\* the domains a request may carry: a host name, wrapped or not in a
\* scheme, a www. prefix, a port and a path
Schemes == {<<>>, Http, Https}
Prefixes == {<<>>, Www}
Hosts == {<<"a", ".", "i", "o">>, <<"w", ".", "i", "o">>,
          <<"w", "w", "w", ".", "b", ".", "i", "o">>}
Ports == {<<>>, <<":", "8", "0">>}
Paths == {<<>>, <<"/">>, <<"/", "p", "/", "q", ":", "r">>}
\* the page numbers a URL is built for
UrlPages == {1, 2, 150}

Parts(sc, pre, h, po, pa) == [scheme |-> sc, www |-> pre, host |-> h, port |-> po, path |-> pa]
DomainInputs ==
  {Parts(sc, pre, h, po, pa) : sc \in Schemes, pre \in Prefixes, h \in Hosts,
                               po \in Ports, pa \in Paths}
\* the string the parts make
Text(r) == r.scheme \o r.www \o r.host \o r.port \o r.path

\* String.prototype.startsWith
StartsWith(str, p) == Len(str) >= Len(p) /\ SubSeq(str, 1, Len(p)) = p
\* str.replace(/^p/, "")
StripPrefix(str, p) ==
  IF StartsWith(str, p) THEN SubSeq(str, Len(p) + 1, Len(str)) ELSE str
\* str.split(c)[0]: what comes before the first c
UpTo(str, c) ==
  IF \E k \in 1..Len(str) : str[k] = c
  THEN SubSeq(str, 1, (CHOOSE k \in 1..Len(str) :
                         str[k] = c /\ \A j \in 1..(k - 1) : str[j] # c) - 1)
  ELSE str

\* shopify-scraper.ts 22: input.replace(/^https?:\/\//, "")
StripScheme(str) ==
  IF StartsWith(str, Https) THEN StripPrefix(str, Https) ELSE StripPrefix(str, Http)

\* a normalisation that leaves the port in
ExtractDomain_KeepPort(input) == StripPrefix(UpTo(StripScheme(input), "/"), Www)

\* shopify-scraper.ts 19-37: extractDomain
ExtractDomain(input) ==
  StripPrefix(UpTo(UpTo(StripScheme(input), "/"), ":"), Www)

\* shopify-scraper.ts 55-65: buildProductsUrl (both branches build the
\* same string)
BuildProductsUrl(domain) ==
  Https \o ExtractDomain(domain) \o ProductsJson \o <<"?">> \o Limit250

\* route.ts 144: `${baseUrl}?limit=250&page=${page}`
PageUrl(base, n) == base \o <<"?">> \o Limit250 \o <<"&">> \o PageEq \o <<ToString(n)>>

\* the handler has been given a domain
DomainStart ==
  /\ dpc = "input" /\ raw \in DomainInputs /\ cleanDomain = <<>>
  /\ baseUrl = <<>> /\ url = <<>> /\ urlPage = 0

\* route.ts 130
Normalize ==
  /\ dpc = "input"
  /\ cleanDomain' = ExtractDomain(Text(raw))
  /\ dpc' = "normalized"
  /\ UNCHANGED <<raw, baseUrl, url, urlPage, nonDomainVars>>

\* route.ts 131
BuildBase ==
  /\ dpc = "normalized"
  /\ baseUrl' = BuildProductsUrl(cleanDomain)
  /\ dpc' = "based"
  /\ UNCHANGED <<raw, cleanDomain, url, urlPage, nonDomainVars>>

\* route.ts 144: the URL of the request for a page
RequestPage ==
  /\ dpc \in {"based", "requested"}
  /\ \E n \in UrlPages :
       /\ n > urlPage
       /\ url' = PageUrl(baseUrl, n)
       /\ urlPage' = n
  /\ dpc' = "requested"
  /\ UNCHANGED <<raw, cleanDomain, baseUrl, nonDomainVars>>

DomainNext ==
  \/ Normalize
  \/ BuildBase
  \/ RequestPage

\* ------------------------------------------------------------------------
\* handleScrape of the scrape page (scrap-products/page.tsx 45-208)
\* ------------------------------------------------------------------------
\* a data line that is not JSON
Garbage == [type |-> "garbage"]
\* what a stream carries between start and its end, and how it ends (an
\* error, a delivery with or without products, a cut-off, a broken line)
MidFrames == {EvFetching(1, 0), EvProgress(1, 10, 10), EvWarning("bad request", 2, 250)}
EndFrames ==
  {<<EvError(ErrMsg("Store not found", 0))>>,
   <<EvComplete(10), EvProducts(PageProducts(1, 10), 0, 1), EvDone>>,
   <<EvComplete(0), EvDone>>,
   <<>>,
   <<Garbage>>}
MaxMidFrames == 2
PageStreams ==
  {<<EvStart>> \o mid \o end :
     mid \in UNION {[1..n -> MidFrames] : n \in 0..MaxMidFrames}, end \in EndFrames}

Alert(t, d) == [text |-> t, detail |-> d]

\* handleScrape has been called
PageStart ==
  /\ ppc = "called" /\ frames \in PageStreams /\ readIdx = 0 /\ alerts = <<>>
  /\ scrapeStatus = "" /\ activeTab = "scrape" /\ scraping = FALSE
  /\ pageProducts = 0 /\ scrapedCount = 0

\* page.tsx 197-207: the outer catch and the finally block
OuterCatch(m) ==
  /\ alerts' = Append(alerts, Alert("Scraping failed", m))
  /\ scrapeStatus' = "Failed"
  /\ scraping' = FALSE
  /\ ppc' = "returned"

\* page.tsx 45-76: the domain is checked and the request is sent
HandleScrape ==
  /\ ppc = "called"
  /\ \E d \in {"empty", "invalid", "valid"} :
       IF d = "valid"
       THEN /\ scraping' = TRUE /\ scrapedCount' = 0
            /\ scrapeStatus' = "Starting..."
            /\ ppc' = "fetch"
            /\ UNCHANGED alerts
       ELSE /\ alerts' = Append(alerts,
                 Alert(IF d = "empty" THEN "Please enter a domain"
                       ELSE "Please enter a valid domain", ""))
            /\ ppc' = "returned"
            /\ UNCHANGED <<scraping, scrapedCount, scrapeStatus>>
  /\ UNCHANGED <<frames, readIdx, activeTab, pageProducts, nonPageVars>>

\* page.tsx 70-85: fetch resolves with a body, resolves without one, or
\* rejects
FetchResponds ==
  /\ ppc = "fetch"
  /\ \E o \in {"stream", "no body", "rejected"} :
       IF o = "stream"
       THEN /\ ppc' = "reading" /\ pageProducts' = 0
            /\ UNCHANGED <<alerts, scrapeStatus, scraping>>
       ELSE /\ OuterCatch(IF o = "no body" THEN "No response body" ELSE "Failed to fetch")
            /\ UNCHANGED pageProducts
  /\ UNCHANGED <<frames, readIdx, activeTab, scrapedCount, nonPageVars>>

\* page.tsx 96-180: one data line: JSON.parse and the switch on data.type,
\* inside the try block whose catch logs and goes on to the next line
HandleLine(f) ==
  /\ scrapeStatus' =
       CASE f.type = "start" -> "Connected"
         [] f.type = "fetching" -> "Fetching"
         [] f.type = "progress" -> "Fetched"
         [] f.type = "waiting" -> "Waiting"
         [] f.type = "complete" -> "Receiving products"
         [] f.type = "products" -> "Loading products"
         [] f.type = "done" -> "Complete"
         [] f.type = "warning" -> f.message
         [] OTHER -> scrapeStatus
  /\ pageProducts' =
       CASE f.type = "start" -> 0
         [] f.type = "products" -> pageProducts + Length(f.chunk)
         [] OTHER -> pageProducts
  /\ scrapedCount' = IF f.type = "done" THEN pageProducts ELSE scrapedCount
  /\ activeTab' = IF f.type = "done" THEN "upload" ELSE activeTab
  /\ UNCHANGED <<alerts, scraping, ppc>>

\* page.tsx 87-95: reader.read() delivers the next line
ReadLine ==
  /\ ppc = "reading" /\ readIdx < Len(frames)
  /\ readIdx' = readIdx + 1
  /\ HandleLine(frames[readIdx + 1])
  /\ UNCHANGED <<frames, nonPageVars>>

\* page.tsx 88-89 and 184-207: the body ends: the loop is left, nothing
\* remains in the buffer, and the finally block runs
ReadEnds ==
  /\ ppc = "reading" /\ readIdx = Len(frames)
  /\ scraping' = FALSE
  /\ ppc' = "returned"
  /\ UNCHANGED <<frames, readIdx, alerts, scrapeStatus, activeTab, pageProducts,
                 scrapedCount, nonPageVars>>

\* page.tsx 88 and 197-207: reader.read() rejects (the connection drops)
ReadFails ==
  /\ ppc = "reading"
  /\ OuterCatch("network error")
  /\ UNCHANGED <<frames, readIdx, activeTab, pageProducts, scrapedCount, nonPageVars>>

PageNext ==
  \/ HandleScrape
  \/ FetchResponds
  \/ ReadLine
  \/ ReadEnds
  \/ ReadFails

RouteNext ==
  \/ RouteValidate
  \/ UploadNext
  \/ RouteRespond

\* ------------------------------------------------------------------------
\* Specifications
\* ------------------------------------------------------------------------
\* every part but the last four is idle
IdleCore ==
  /\ IdleScrape /\ IdleUpload /\ IdleRoute /\ IdleClient
  /\ IdleDomain /\ IdlePage /\ IdleSingle

\* ------------------------------------------------------------------------
\* deleteProduct and deleteProducts (shopify-mutations.ts 469-540)
\* ------------------------------------------------------------------------
MaxIds == 3
Ids == {"p1", "p2", "p3"}
IdLists == UNION {[1..n -> Ids] : n \in 1..MaxIds}

\* deleteProducts has been called with a list of ids
DeleteStart ==
  /\ xpc = "loop" /\ productIds \in IdLists /\ xi = 0
  /\ results = NoResults /\ attempts = <<>>

\* shopify-mutations.ts 487-508, part_002 41-66: what deleteProduct returns
\* when productDelete ends with outcome o; user errors are thrown by the
\* client and, like every failure, caught and returned
DeleteProduct(o) ==
  IF o = "ok" THEN [success |-> TRUE, error |-> ""] ELSE [success |-> FALSE, error |-> o]

\* shopify-mutations.ts 527-536: the result of one deletion is tallied
Tallied(r, id, d) ==
  IF d.success THEN [r EXCEPT !.successful = @ + 1]
  ELSE [r EXCEPT !.failed = @ + 1,
                 !.errors = Append(@, [productId |-> id, error |-> d.error])]

\* a loop that gives up at the first failed deletion
DeleteOne_StopOnFailure ==
  /\ xpc = "loop" /\ xi < Len(productIds)
  /\ \E o \in {"ok", "userErrors", "thrown"} :
       /\ attempts' = Append(attempts, [id |-> productIds[xi + 1], outcome |-> o])
       /\ results' = Tallied(results, productIds[xi + 1], DeleteProduct(o))
       /\ store' = IF o = "ok" THEN store \ {productIds[xi + 1]} ELSE store
       /\ xpc' = IF o = "ok" THEN "loop" ELSE "returned"
  /\ xi' = xi + 1
  /\ UNCHANGED <<productIds, mpc, shown, selectedProducts, searchQuery,
                 hasNextPage, asked, coreVars, textVars, readerVars>>

\* shopify-mutations.ts 526-537: one turn of the loop: the next id is
\* deleted, the call is awaited and its result tallied
DeleteOne ==
  /\ xpc = "loop" /\ xi < Len(productIds)
  /\ \E o \in {"ok", "userErrors", "thrown"} :
       /\ attempts' = Append(attempts, [id |-> productIds[xi + 1], outcome |-> o])
       /\ results' = Tallied(results, productIds[xi + 1], DeleteProduct(o))
       /\ store' = IF o = "ok" THEN store \ {productIds[xi + 1]} ELSE store
  /\ xi' = xi + 1
  /\ UNCHANGED <<xpc, productIds, mpc, shown, selectedProducts, searchQuery,
                 hasNextPage, asked, coreVars, textVars, readerVars>>

\* shopify-mutations.ts 526 and 539: the list is used up, results is returned
DeleteReturns ==
  /\ xpc = "loop" /\ xi = Len(productIds)
  /\ xpc' = "returned"
  /\ UNCHANGED <<productIds, xi, results, attempts, nonDeleteVars>>

DeleteNext == DeleteOne \/ DeleteReturns

\* ------------------------------------------------------------------------
\* The My Products page (my-products/page.tsx 51-172, 237-248)
\* ------------------------------------------------------------------------
\* the searches a user may type: none, or one that only product p1 matches
Queries == {"", "p1"}
IdOrder == <<"p1", "p2", "p3">>
\* the ids of S in the order the store lists them
Listed(S) == SelectSeq(IdOrder, LAMBDA x : x \in S)
IdsOf(l) == {l[k] : k \in 1..Len(l)}
\* what the store still has to list for query q after the ids in have
Remaining(q, have) == Listed({x \in store : q = "" \/ x = q} \ have)

\* the page has been opened on a store with some products
ListStart ==
  /\ mpc = "mount" /\ store \in (SUBSET Ids \ {{}}) /\ shown = <<>>
  /\ selectedProducts = {} /\ searchQuery = "" /\ hasNextPage = FALSE
  /\ asked = <<>>

\* page.tsx 51-82: fetchProducts(after, query): the request is answered
\* with the next products (at least one when any is left) and pageInfo, or
\* fails and leaves the list alone; after tells whether a cursor was passed
FetchProducts(after, q) ==
  \/ \E n \in 0..MaxIds :
       LET rest == Remaining(q, IF after THEN IdsOf(shown) ELSE {})
       IN /\ n <= Len(rest) /\ (n = 0 => rest = <<>>)
          /\ shown' = (IF after THEN shown ELSE <<>>) \o SubSeq(rest, 1, n)
          /\ hasNextPage' = (n < Len(rest))
  \/ UNCHANGED <<shown, hasNextPage>>

\* page.tsx 84-86: the effect run when the page is mounted
Mounted ==
  /\ mpc = "mount"
  /\ mpc' = "idle"
  /\ FetchProducts(FALSE, "")
  /\ UNCHANGED <<selectedProducts, searchQuery, store, asked, coreVars, textVars,
                 deleteVars, readerVars>>

\* page.tsx 88-91, 226: a query is typed and the form is submitted
HandleSearch ==
  /\ mpc = "idle"
  /\ \E q \in Queries : searchQuery' = q /\ FetchProducts(FALSE, q)
  /\ UNCHANGED <<mpc, selectedProducts, store, asked, coreVars, textVars,
                 deleteVars, readerVars>>

\* page.tsx 237-248: the Clear button, shown while there is a query
ClearSearch ==
  /\ mpc = "idle" /\ searchQuery # ""
  /\ searchQuery' = ""
  /\ FetchProducts(FALSE, "")
  /\ UNCHANGED <<mpc, selectedProducts, store, asked, coreVars, textVars,
                 deleteVars, readerVars>>

\* page.tsx 93-97
HandleLoadMore ==
  /\ mpc = "idle" /\ hasNextPage
  /\ FetchProducts(TRUE, searchQuery)
  /\ UNCHANGED <<mpc, selectedProducts, searchQuery, store, asked, coreVars,
                 textVars, deleteVars, readerVars>>

\* page.tsx 99-107: the checkbox of a displayed product is clicked
HandleSelectProduct ==
  /\ mpc = "idle"
  /\ \E x \in IdsOf(shown) :
       selectedProducts' = IF x \in selectedProducts THEN selectedProducts \ {x}
                           ELSE selectedProducts \cup {x}
  /\ UNCHANGED <<mpc, shown, searchQuery, hasNextPage, store, asked, coreVars,
                 textVars, deleteVars, readerVars>>

\* page.tsx 109-115; the checkbox is shown while products are displayed
HandleSelectAll ==
  /\ mpc = "idle" /\ shown # <<>>
  /\ selectedProducts' = IF Cardinality(selectedProducts) = Len(shown) THEN {}
                          ELSE IdsOf(shown)
  /\ UNCHANGED <<mpc, shown, searchQuery, hasNextPage, store, asked, coreVars,
                 textVars, deleteVars, readerVars>>

\* page.tsx 117-141, delete-products/route.ts 5-26: the selection is sent
\* after the confirmation; the route hands the ids to deleteProducts, or
\* answers without success (no client) and the page keeps its state
HandleDeleteSelected ==
  /\ mpc = "idle" /\ selectedProducts # {}
  /\ asked' = Listed(selectedProducts)
  /\ \/ /\ mpc' = "deleting" /\ xpc' = "loop"
        /\ productIds' = Listed(selectedProducts) /\ xi' = 0
        /\ results' = NoResults /\ attempts' = <<>>
     \/ UNCHANGED <<mpc, deleteVars>>
  /\ UNCHANGED <<shown, selectedProducts, searchQuery, hasNextPage, store,
                 coreVars, textVars, readerVars>>

\* page.tsx 141-168, route.ts 26-33: the result arrives: the products the
\* handler was called with are filtered out of the list, the selection is
\* emptied
DeleteAnswered ==
  /\ mpc = "deleting" /\ xpc = "returned"
  /\ shown' = SelectSeq(shown, LAMBDA x : x \notin IdsOf(productIds))
  /\ selectedProducts' = {}
  /\ mpc' = "idle" /\ xpc' = "off"
  /\ UNCHANGED <<productIds, xi, results, attempts, searchQuery, hasNextPage,
                 store, asked, coreVars, textVars, readerVars>>

ListNext ==
  \/ Mounted
  \/ ClearSearch
  \/ HandleSearch
  \/ HandleLoadMore
  \/ HandleSelectProduct
  \/ HandleSelectAll
  \/ HandleDeleteSelected
  \/ DeleteOne
  \/ DeleteReturns
  \/ DeleteAnswered

ListInit == ListStart /\ IdleCore /\ IdleText /\ IdleDelete /\ IdleReader
ListSpec == ListInit /\ [][ListNext]_vars

DeleteInit == DeleteStart /\ IdleCore /\ IdleText /\ IdleList /\ IdleReader
DeleteSpec == DeleteInit /\ [][DeleteNext]_vars

\* ------------------------------------------------------------------------
\* convertToJsonl and stripHtml (shopify-scraper.ts 234-297), on characters
\* ------------------------------------------------------------------------
White == {" ", "\n"}
Nbsp == <<"&", "n", "b", "s", "p", ";">>
Amp == <<"&", "a", "m", "p", ";">>
\* shopify-scraper.ts 286-293: the entities and what each is replaced by,
\* in the order of the replace calls
Entities ==
  <<[from |-> Nbsp, to |-> <<" ">>],
    [from |-> Amp, to |-> <<"&">>],
    [from |-> <<"&", "l", "t", ";">>, to |-> <<"<">>],
    [from |-> <<"&", "g", "t", ";">>, to |-> <<">">>],
    [from |-> <<"&", "q", "u", "o", "t", ";">>, to |-> <<"\"">>],
    [from |-> <<"&", "#", "0", "3", "9", ";">>, to |-> <<"'">>],
    [from |-> <<"&", "a", "p", "o", "s", ";">>, to |-> <<"'">>]>>

\* the descriptions converted: up to MaxPieces pieces one after the other,
\* and the description <p>Hello&nbsp;World</p>
MaxPieces == 4
Pieces ==
  {<<"a">>, <<" ">>, <<"\n">>, <<"<", "p", ">">>, <<"<">>, Nbsp, Amp, <<"l", "t", ";">>}
RECURSIVE Join(_)
Join(ps) == IF ps = <<>> THEN <<>> ELSE Head(ps) \o Join(Tail(ps))
HelloWorld ==
  <<"<", "p", ">", "H", "e", "l", "l", "o">> \o Nbsp
  \o <<"W", "o", "r", "l", "d", "<", "/", "p", ">">>
Descriptions ==
  {Join(ps) : ps \in UNION {[1..n -> Pieces] : n \in 0..MaxPieces}} \cup {HelloWorld}

\* str.replace(/<[^>]*>/g, " "): a "<" with a ">" after it is replaced, up
\* to the first such ">", by one space
RECURSIVE StripTags(_)
StripTags(str) ==
  IF str = <<>> THEN <<>>
  ELSE IF Head(str) = "<" /\ \E k \in 2..Len(str) : str[k] = ">"
  THEN <<" ">> \o StripTags(SubSeq(str, Len(UpTo(str, ">")) + 2, Len(str)))
  ELSE <<Head(str)>> \o StripTags(Tail(str))

\* str.replace(/\s+/g, " ")
RECURSIVE CollapseSpaces(_)
CollapseSpaces(str) ==
  IF str = <<>> THEN <<>>
  ELSE IF Head(str) \in White
  THEN (IF Len(str) > 1 /\ str[2] \in White THEN <<>> ELSE <<" ">>)
       \o CollapseSpaces(Tail(str))
  ELSE <<Head(str)>> \o CollapseSpaces(Tail(str))

\* str.replace(/p/g, r) for a literal p
RECURSIVE ReplaceAll(_, _, _)
ReplaceAll(str, p, r) ==
  IF str = <<>> THEN <<>>
  ELSE IF StartsWith(str, p)
  THEN r \o ReplaceAll(SubSeq(str, Len(p) + 1, Len(str)), p, r)
  ELSE <<Head(str)>> \o ReplaceAll(Tail(str), p, r)

\* shopify-scraper.ts 286-293: the chain of replace calls, from the k-th on
RECURSIVE DecodeEntities(_, _)
DecodeEntities(str, k) ==
  IF k > Len(Entities) THEN str
  ELSE DecodeEntities(ReplaceAll(str, Entities[k].from, Entities[k].to), k + 1)

\* String.prototype.trim
RECURSIVE Trim(_)
Trim(str) ==
  IF str = <<>> THEN <<>>
  ELSE IF Head(str) \in White THEN Trim(Tail(str))
  ELSE IF str[Len(str)] \in White THEN Trim(SubSeq(str, 1, Len(str) - 1))
  ELSE str

\* shopify-scraper.ts 278-297
StripHtml(str) == Trim(DecodeEntities(CollapseSpaces(StripTags(str)), 1))

\* convertToJsonl reaches the text field of a product with description html
TextStart == tpc = "called" /\ html \in Descriptions /\ txt = <<>>

\* shopify-scraper.ts 260: text: product.body_html ? stripHtml(...) : ""
ConvertToJsonl ==
  /\ tpc = "called"
  /\ tpc' = "done"
  /\ txt' = IF html = <<>> THEN <<>> ELSE StripHtml(html)
  /\ UNCHANGED <<html, nonTextVars>>

TextNext == ConvertToJsonl

TextInit == TextStart /\ IdleCore /\ IdleDelete /\ IdleList /\ IdleReader
TextSpec == TextInit /\ [][TextNext]_vars

ScrapeInit == ScrapeStart /\ IdleUpload /\ IdleRoute /\ IdleClient /\ IdleSide
UploadInit == UploadStart /\ IdleScrape /\ IdleRoute /\ IdleClient /\ IdleSide

ScrapeSpec == ScrapeInit /\ [][ScrapeNext]_vars
UploadSpec == UploadInit /\ [][UploadNext]_vars

RouteInit == RouteStart /\ IdleScrape /\ IdleUpload /\ IdleClient /\ IdleSide
RouteSpec == RouteInit /\ [][RouteNext]_vars
\* the handler is scheduled until it has answered
FairRouteSpec == RouteSpec /\ WF_vars(RouteNext)

\* the scrape-stream handler from its invocation on, with a client that
\* may cancel the stream
HandlerInit ==
  spc = "invoked" /\ ScrapeFresh /\ IdleUpload /\ IdleRoute /\ IdleClient /\ IdleSide
HandlerSpec == HandlerInit /\ [][HandlerNext]_vars

\* the URL construction of the scrape-stream handler
DomainInit ==
  /\ DomainStart /\ IdleScrape /\ IdleUpload /\ IdleRoute /\ IdleClient
  /\ IdlePage /\ IdleSingle /\ IdleLate
DomainSpec == DomainInit /\ [][DomainNext]_vars

\* ------------------------------------------------------------------------
\* uploadSingleProduct and createProductWithVariants, request by request
\* (product-uploader.ts 80-200, shopify-mutations.ts 76-250, 612-912)
\* ------------------------------------------------------------------------
MaxVariants == 2
Undefined == "undefined"

\* a scraped variant; sku and compare_at_price are "" when the store has none
ScrapedVariants ==
  {[price |-> "10", compare_at_price |-> c, sku |-> k,
    requires_shipping |-> TRUE, taxable |-> TRUE, grams |-> 100] :
     c \in {"", "15"}, k \in {"", "S1"}}
ScrapedProducts ==
  {[variants |-> vs, images |-> n] :
     vs \in UNION {[1..m -> ScrapedVariants] : m \in 1..MaxVariants}, n \in {0, 2}}

\* product-uploader.ts 87-95: one variant of convertToShopifyFormat
ConvertVariant(v) ==
  [price |-> v.price,
   compareAtPrice |-> IF v.compare_at_price = "" THEN Undefined ELSE v.compare_at_price,
   sku |-> IF v.sku = "" THEN Undefined ELSE v.sku,
   requiresShipping |-> v.requires_shipping,
   taxable |-> v.taxable,
   weight |-> v.grams,
   weightUnit |-> "GRAMS"]
\* product-uploader.ts 112: productData.variants
Variants == [i \in 1..Len(vprod[1].variants) |-> ConvertVariant(vprod[1].variants[i])]

\* a request to the Admin API: the operation, the variant it is about (0:
\* the product) and the input it carries; JSON.stringify leaves out a field
\* whose value is undefined
Request(op, i, input) == [op |-> op, variant |-> i, input |-> input]
PriceInput(v) ==
  IF v.compareAtPrice = Undefined THEN [price |-> v.price]
  ELSE [price |-> v.price, compareAtPrice |-> v.compareAtPrice]
\* shopify-mutations.ts 683-689: { id, price, compareAtPrice }
UpdateInput(v) ==
  IF v.compareAtPrice = Undefined THEN [id |-> "default", price |-> v.price]
  ELSE [id |-> "default", price |-> v.price, compareAtPrice |-> v.compareAtPrice]
\* shopify-mutations.ts 819-822: input: { sku }
SkuInput(v) == [sku |-> v.sku]
NoInput == [id |-> "product"]
\* product-uploader.ts 145-162: one media entry per image of the product
MediaInput == [media |-> vprod[1].images]

\* product-uploader.ts 129-135, 190-198: what uploadSingleProduct returns
UploadFailed(e) == [success |-> FALSE, error |-> e]
UploadSucceeded == [success |-> TRUE, error |-> ""]

\* uploadSingleProduct has been called with one product
SingleStart ==
  /\ vpc = "called" /\ vprod \in {<<p>> : p \in ScrapedProducts}
  /\ vi = 0 /\ sent = <<>> /\ vresult = <<>>

Single(pc, i, s, r) ==
  /\ vpc' = pc /\ vi' = i /\ sent' = s /\ vresult' = r
  /\ UNCHANGED <<vprod, nonSingleVars>>

\* an upload that sends the images as soon as the variant steps are over
AfterVariants_NoDelay(i, s) ==
  IF vprod[1].images > 0
  THEN Single("media", i, Append(s, Request("productCreateMedia", 0, MediaInput)), <<>>)
  ELSE Single("returned", i, s, <<UploadSucceeded>>)

\* shopify-mutations.ts 206 and product-uploader.ts 128-193:
\* createProductWithVariants returns the productCreate response; the images
\* are added after a delay, or the upload succeeds without them
AfterVariants(i, s) ==
  IF vprod[1].images > 0 THEN Single("mediaDelay", i, s, <<>>)
  ELSE Single("returned", i, s, <<UploadSucceeded>>)

\* shopify-mutations.ts 185-199: the loop over the additional variants
NextVariant(i, s) ==
  IF i <= Len(Variants)
  THEN Single("createVariant", i,
              Append(s, Request("productVariantsBulkCreate", i, PriceInput(Variants[i]))),
              <<>>)
  ELSE AfterVariants(i, s)

\* shopify-mutations.ts 766-835: updateVariantInventoryItem has ended for
\* variant i: the default variant is followed by the loop, an additional
\* variant by the next one
AfterSku(i, s) == NextVariant(IF i = 1 THEN 2 ELSE i + 1, s)

\* product-uploader.ts 102-126, shopify-mutations.ts 129-138: the product
\* is converted and productCreate is sent without variants
UploadSingleProduct ==
  /\ vpc = "called"
  /\ Single("create", 0, Append(sent, Request("productCreate", 0, NoInput)), <<>>)

\* shopify-mutations.ts 138-154, product-uploader.ts 194-199, part_002
\* 41-66: productCreate answers; an HTTP error, a GraphQL error and a list
\* of userErrors are all thrown by the client and end the upload
ProductCreateResponds ==
  /\ vpc = "create"
  /\ \E o \in {"ok", "userErrors", "thrown"} :
       IF o = "ok"
       THEN Single("defaultVariant", 1,
                   Append(sent, Request("getProduct", 1, NoInput)), <<>>)
       ELSE Single("returned", 0, sent, <<UploadFailed(o)>>)

\* shopify-mutations.ts 612-638, 154-172: getDefaultVariantId returns the id
\* or null (also when the query fails); with an id the price is sent
GetDefaultVariantIdResponds ==
  /\ vpc = "defaultVariant"
  /\ \E o \in {"found", "none", "thrown"} :
       IF o = "found"
       THEN Single("updateVariant", 1,
                   Append(sent, Request("productVariantsBulkUpdate", 1,
                                        UpdateInput(Variants[1]))), <<>>)
       ELSE NextVariant(2, sent)

\* a price update whose failure ends the upload of the product
UpdateProductVariantByIdResponds_Fatal ==
  /\ vpc = "updateVariant"
  /\ \E o \in {"ok", "userErrors", "thrown"} :
       IF o # "ok" THEN Single("returned", 1, sent, <<UploadFailed(o)>>)
       ELSE IF Variants[1].sku # Undefined
       THEN Single("inventoryItem", 1,
                   Append(sent, Request("getVariant", 1, NoInput)), <<>>)
       ELSE NextVariant(2, sent)

\* shopify-mutations.ts 643-708, 174-182, 202-204, part_002 41-66: the bulk
\* update answers; an HTTP error, a GraphQL error and a list of userErrors
\* are thrown by the client into the catch of createProductWithVariants,
\* which leaves the remaining variants out
UpdateProductVariantByIdResponds ==
  /\ vpc = "updateVariant"
  /\ \E o \in {"ok", "userErrors", "thrown"} :
       IF o # "ok" THEN AfterVariants(1, sent)
       ELSE IF Variants[1].sku # Undefined
       THEN Single("inventoryItem", 1,
                   Append(sent, Request("getVariant", 1, NoInput)), <<>>)
       ELSE NextVariant(2, sent)

\* shopify-mutations.ts 779-822: the inventory item of the variant is
\* looked up; without one, or on a failure, the SKU is left alone
InventoryItemResponds ==
  /\ vpc = "inventoryItem"
  /\ \E o \in {"found", "none", "thrown"} :
       IF o = "found"
       THEN Single("skuUpdate", vi,
                   Append(sent, Request("inventoryItemUpdate", vi, SkuInput(Variants[vi]))),
                   <<>>)
       ELSE AfterSku(vi, sent)

\* shopify-mutations.ts 819-834: inventoryItemUpdate answers; every outcome
\* is logged and nothing is thrown
SkuUpdateResponds ==
  /\ vpc = "skuUpdate"
  /\ AfterSku(vi, sent)

\* shopify-mutations.ts 842-912, 202-204: productVariantsBulkCreate answers
\* for variant vi; the SKU follows when the answer carries the new id
CreateProductVariantResponds ==
  /\ vpc = "createVariant"
  /\ \E o \in {"ok", "no id", "userErrors", "thrown"} :
       IF o \in {"userErrors", "thrown"} THEN AfterVariants(vi, sent)
       ELSE IF o = "ok" /\ Variants[vi].sku # Undefined
       THEN Single("inventoryItem", vi,
                   Append(sent, Request("getVariant", vi, NoInput)), <<>>)
       ELSE NextVariant(vi + 1, sent)

\* product-uploader.ts 143-162: the 500 ms timer fires and the images are sent
MediaDelayDone ==
  /\ vpc = "mediaDelay"
  /\ Single("media", vi, Append(sent, Request("productCreateMedia", 0, MediaInput)), <<>>)

\* product-uploader.ts 158-193: productCreateMedia answers; media errors
\* and failures are logged and the upload succeeds
AddProductMediaResponds ==
  /\ vpc = "media"
  /\ Single("returned", vi, sent, <<UploadSucceeded>>)

SingleNext ==
  \/ UploadSingleProduct
  \/ ProductCreateResponds
  \/ GetDefaultVariantIdResponds
  \/ UpdateProductVariantByIdResponds
  \/ InventoryItemResponds
  \/ SkuUpdateResponds
  \/ CreateProductVariantResponds
  \/ MediaDelayDone
  \/ AddProductMediaResponds

\* one product uploaded on its own
SingleInit ==
  /\ SingleStart /\ IdleScrape /\ IdleUpload /\ IdleRoute /\ IdleClient
  /\ IdleDomain /\ IdlePage /\ IdleLate
SingleSpec == SingleInit /\ [][SingleNext]_vars

\* handleScrape of the scrape page, reading a stream
PageInit ==
  /\ PageStart /\ IdleScrape /\ IdleUpload /\ IdleRoute /\ IdleClient
  /\ IdleDomain /\ IdleSingle /\ IdleLate
PageSpec == PageInit /\ [][PageNext]_vars

\* ------------------------------------------------------------------------
\* The stream reader of handleScrape (scrap-products/page.tsx 82-196) and the
\* framing of the events (route.ts 125-127), on bytes
\* ------------------------------------------------------------------------
\* A byte string is a sequence of pieces; a piece of the JSON text of an
\* event carries the position of the event in the stream. "b1" and "b2" are
\* the two bytes of a character outside ASCII in the JSON text, "ch" is that
\* character once decoded, and "bad" is the replacement character.
Tok(c, k) == [c |-> c, ev |-> k]
NL == Tok("\n", 0)

\* route.ts 125-127: data: <JSON.stringify(data)>\n\n, encoded as UTF-8
Frame(k) ==
  <<Tok("da", 0), Tok("ta: ", 0), Tok("{", k), Tok("b1", k), Tok("b2", k),
    Tok("}", k), NL, NL>>
FrameLen == Len(Frame(1))
Encode(e) ==
  [j \in 1..(FrameLen * Len(e)) |-> Frame(((j - 1) \div FrameLen) + 1)[((j - 1) % FrameLen) + 1]]

\* the product lists a successful scrape may deliver, and its event streams
ReaderLists ==
  {PageProducts(1, k) : k \in {0} \cup ShortPageSizes}
    \cup {Concat(PageProducts(1, pageLimit), PageProducts(2, k)) : k \in ShortPageSizes}
ReaderMids == {<<>>, <<EvFetching(1, 0)>>, <<EvFetching(1, 0), EvProgress(1, 10, 10)>>}
ReaderStreams ==
  {<<EvStart>> \o mid \o DeliveryEvents(l) : mid \in ReaderMids, l \in ReaderLists}

\* a decoder that does not hold an incomplete character back
Decode_NoStream(pend, bytes) ==
  LET inp == pend \o bytes
      char(j) ==
        CASE inp[j].c = "b1" ->
               IF j < Len(inp) /\ inp[j + 1].c = "b2" /\ inp[j + 1].ev = inp[j].ev
               THEN Tok("ch", inp[j].ev) ELSE Tok("bad", 0)
          [] inp[j].c = "b2" ->
               IF j > 1 /\ inp[j - 1].c = "b1" /\ inp[j - 1].ev = inp[j].ev
               THEN Tok("skip", 0) ELSE Tok("bad", 0)
          [] OTHER -> inp[j]
  IN [text |-> SelectSeq([j \in 1..Len(inp) |-> char(j)], LAMBDA t : t.c # "skip"),
      held |-> <<>>]

\* page.tsx 91: decoder.decode(value, { stream: true }), after the bytes the
\* decoder held back: the characters that are complete, and the bytes of an
\* incomplete last character, which are held back
Decode(pend, bytes) ==
  LET data == pend \o bytes
      cut == IF data # <<>> /\ data[Len(data)].c = "b1" THEN 1 ELSE 0
      inp == SubSeq(data, 1, Len(data) - cut)
      char(j) ==
        CASE inp[j].c = "b1" ->
               IF j < Len(inp) /\ inp[j + 1].c = "b2" /\ inp[j + 1].ev = inp[j].ev
               THEN Tok("ch", inp[j].ev) ELSE Tok("bad", 0)
          [] inp[j].c = "b2" ->
               IF j > 1 /\ inp[j - 1].c = "b1" /\ inp[j - 1].ev = inp[j].ev
               THEN Tok("skip", 0) ELSE Tok("bad", 0)
          [] OTHER -> inp[j]
  IN [text |-> SelectSeq([j \in 1..Len(inp) |-> char(j)], LAMBDA t : t.c # "skip"),
      held |-> SubSeq(data, Len(data) - cut + 1, Len(data))]

\* page.tsx 92: buffer.split('\n')
RECURSIVE SplitLines(_)
SplitLines(str) ==
  LET head == UpTo(str, NL)
  IN IF Len(head) = Len(str) THEN <<str>>
     ELSE <<head>> \o SplitLines(SubSeq(str, Len(head) + 2, Len(str)))

\* a reader that throws the incomplete last line away
KeptBuffer_None(str) == <<>>

\* page.tsx 93: buffer = lines.pop() || ''
KeptBuffer(str) == SplitLines(str)[Len(SplitLines(str))]

\* page.tsx 92-93: the lines that remain after lines.pop()
CompleteLines(str) == SubSeq(SplitLines(str), 1, Len(SplitLines(str)) - 1)

\* page.tsx 96-98: line.startsWith('data: ') and JSON.parse(line.slice(6));
\* ok is FALSE when the line is skipped or JSON.parse throws, intact tells
\* whether the value is the one that was sent
NoParse == [ok |-> FALSE, ev |-> 0, intact |-> FALSE]
ParseLine(line) ==
  IF ~(Len(line) >= 2 /\ line[1].c = "da" /\ line[2].c = "ta: ") THEN NoParse
  ELSE LET json == SubSeq(line, 3, Len(line))
       IN IF /\ Len(json) >= 2
             /\ json[1].c = "{" /\ json[Len(json)].c = "}"
             /\ json[1].ev = json[Len(json)].ev
             /\ \A j \in 2..(Len(json) - 1) : json[j].c \in {"ch", "bad"}
          THEN [ok |-> TRUE, ev |-> json[1].ev,
                intact |-> json = <<json[1], Tok("ch", json[1].ev), json[Len(json)]>>]
          ELSE NoParse

\* page.tsx 100-174: the switch over data.type, on allProducts (all),
\* scrapedProducts (shown) and the record of the events it was entered with
Dispatch(st, p) ==
  LET e == frames[p.ev]
      log == Append(st.log, [ev |-> p.ev, intact |-> p.intact])
  IN CASE e.type = "start" -> [st EXCEPT !.all = <<>>, !.log = log]
       [] e.type = "products" -> [st EXCEPT !.all = Concat(@, e.chunk), !.log = log]
       [] e.type = "done" -> [st EXCEPT !.shown = st.all, !.log = log]
       [] OTHER -> [st EXCEPT !.log = log]

\* page.tsx 95-179: for (const line of lines), from the j-th line on
RECURSIVE HandleLines(_, _, _)
HandleLines(st, lines, j) ==
  IF j > Len(lines) THEN st
  ELSE LET p == ParseLine(lines[j])
       IN HandleLines(IF p.ok THEN Dispatch(st, p) ELSE st, lines, j + 1)

\* page.tsx 82-85: the reader, the decoder, allProducts and buffer are set up
ReaderStart ==
  /\ kpc = "reading" /\ frames \in ReaderStreams /\ wire = Encode(frames)
  /\ pending = <<>> /\ buffer = <<>> /\ handled = <<>>
  /\ readerAll = <<>> /\ readerShown = <<>>

\* page.tsx 87-180: one reader.read() that delivers the next n bytes
ReadChunk ==
  /\ kpc = "reading" /\ wire # <<>>
  /\ \E n \in 1..Len(wire) :
       LET dec == Decode(pending, SubSeq(wire, 1, n))
           str == buffer \o dec.text
           st == HandleLines([all |-> readerAll, shown |-> readerShown, log |-> handled],
                             CompleteLines(str), 1)
       IN /\ wire' = SubSeq(wire, n + 1, Len(wire))
          /\ pending' = dec.held
          /\ buffer' = KeptBuffer(str)
          /\ handled' = st.log
          /\ readerAll' = st.all
          /\ readerShown' = st.shown
  /\ kpc' = "reading"
  /\ UNCHANGED nonReaderVars

\* page.tsx 88-89 and 183-196: reader.read() reports done, and what is left
\* in buffer is looked at
ReadDone ==
  /\ kpc = "reading" /\ wire = <<>>
  /\ LET p == ParseLine(buffer)
         last == p.ok /\ frames[p.ev].type = "done"
     IN /\ readerShown' = IF last THEN readerAll ELSE readerShown
        /\ handled' = IF last THEN Append(handled, [ev |-> p.ev, intact |-> p.intact])
                      ELSE handled
  /\ kpc' = "finished"
  /\ UNCHANGED <<wire, pending, buffer, readerAll, nonReaderVars>>

ReaderNext == ReadChunk \/ ReadDone
ReaderInit ==
  /\ ReaderStart /\ IdleScrape /\ IdleUpload /\ IdleRoute /\ IdleClient
  /\ IdleDomain /\ IdleSingle /\ IdleText /\ IdleDelete /\ IdleList
  /\ ppc = "off" /\ readIdx = 0 /\ alerts = <<>>
  /\ scrapeStatus = "" /\ activeTab = "scrape" /\ scraping = FALSE
  /\ pageProducts = 0 /\ scrapedCount = 0
ReaderSpec == ReaderInit /\ [][ReaderNext]_vars


Init == ScrapeInit \/ UploadInit \/ RouteInit \/ HandlerInit \/ DomainInit \/ PageInit
  \/ SingleInit \/ TextInit \/ DeleteInit \/ ListInit \/ ReaderInit
Next == ScrapeNext \/ UploadNext \/ RouteNext \/ HandlerNext \/ DomainNext \/ PageNext
  \/ SingleNext \/ TextNext \/ DeleteNext \/ ListNext \/ ReaderNext
Spec == Init /\ [][Next]_vars

\* ------------------------------------------------------------------------
\* Properties of the scrape-stream run
\* ------------------------------------------------------------------------
IsTerminal(e) == e.type \in {"done", "error"}
LastEvent == events[Len(events)]
Closed == spc = "closed"
HasEvent(t) == \E i \in 1..Len(events) : events[i].type = t
CountEvents(t) == Cardinality({i \in 1..Len(events) : events[i].type = t})

\* the list the source has served so far: its pages' products in page order
RECURSIVE ServedFrom(_, _, _)
ServedFrom(sv, from, to) ==
  IF from > to THEN <<>>
  ELSE IF from = to THEN PageProducts(sv[from].page, sv[from].count)
  ELSE Concat(ServedFrom(sv, from, (from + to) \div 2),
              ServedFrom(sv, ((from + to) \div 2) + 1, to))
ServedList(sv) == ServedFrom(sv, 1, Len(sv))

RECURSIVE CountFrom(_, _, _)
CountFrom(sv, from, to) ==
  IF from > to THEN 0
  ELSE IF from = to THEN sv[from].count
  ELSE CountFrom(sv, from, (from + to) \div 2)
       + CountFrom(sv, ((from + to) \div 2) + 1, to)
ServedCount(sv) == CountFrom(sv, 1, Len(sv))

\* the chunks of the events at positions from..to, concatenated
RECURSIVE ConcatChunks(_, _, _)
ConcatChunks(e, from, to) ==
  IF from > to THEN <<>>
  ELSE IF from = to THEN e[from].chunk
  ELSE Concat(ConcatChunks(e, from, (from + to) \div 2),
              ConcatChunks(e, ((from + to) \div 2) + 1, to))

\* the events from position k0 on are: complete with the length of l0, then
\* the products events of the list l0 in chunk order, then done
DeliveredFrom(k0, l0) ==
  \A k \in {k0} : \A l \in {l0} : \A len \in {Length(l0)} :
  \A n \in {Len(events) - k0 - 1} :
     /\ k >= 1 /\ n >= 0
     /\ events[k].type = "complete"
     /\ events[k].count = len
     /\ n = Ceil(len, chunkSize)
     /\ \A j \in 1..n :
          /\ events[k + j].type = "products"
          /\ events[k + j].chunkIndex = j - 1
          /\ events[k + j].totalChunks = n
          /\ Length(events[k + j].chunk) <= chunkSize
          /\ Length(events[k + j].chunk) >= 1
     /\ Canon(ConcatChunks(events, k + 1, k + n)) = Canon(l)
     /\ LastEvent.type = "done"

\* position of the complete event (0 when there is none)
CompleteIndex ==
  IF HasEvent("complete")
  THEN CHOOSE i \in 1..Len(events) : events[i].type = "complete"
  ELSE 0

\* a measure of the work a run has left: it is 0 exactly for a closed
\* stream, and the properties below say that every step lowers it
Phase == CASE spc = "request" -> 4 [] spc = "pageWait" -> 3 [] spc = "fetch" -> 2
           [] spc = "retryWait" -> 1 [] OTHER -> 0
Rank ==
  IF Closed THEN 0
  ELSE (safetyPage + 2 - page) * (4 * maxRetries + 8) + (maxRetries - attempt) * 4 + Phase

\* C1: every scrape-stream run ends with exactly one terminal event, done
\* or error and never both, and nothing is emitted after it: at all times no
\* event but the last is terminal, the last event is terminal exactly when
\* the stream has been closed, and a closed stream never changes.  Every run
\* gets there: a stream that is not closed always has a step to take, and
\* every step lowers the non-negative measure Rank, which is 0 only for a
\* closed stream.
C1_State ==
  /\ \A i \in 1..(Len(events) - 1) : ~IsTerminal(events[i])
  /\ Closed <=> (events # <<>> /\ IsTerminal(LastEvent))
  /\ spc = "request" => ENABLED StartStream
  /\ spc = "fetch" => ENABLED FetchFails
  /\ spc = "retryWait" => ENABLED RetryWaitDone
  /\ spc = "pageWait" => ENABLED PageWaitDone
  /\ spc \in {"request", "fetch", "retryWait", "pageWait", "closed"}
  /\ Rank >= 0 /\ (Rank = 0 <=> Closed)
C1_Step ==
  /\ Closed => UNCHANGED vars
  /\ Rank' < Rank
C1_OneTerminalEvent == [](C1_State) /\ [][C1_Step]_vars
C1_Witness ==
  /\ Closed /\ LastEvent.type = "error" /\ Len(served) >= 2
  /\ CountEvents("error") = 1 /\ CountEvents("done") = 0

\* C2: when the source serves full pages 1..n-1 and a page n that is not
\* full, the pages are requested in the order 1, 2, ..., n (a page is
\* requested for the first time only after the page before it was served
\* full), page n + 1 is never requested, and the accumulated list is the
\* concatenation of the served pages in page order; 250, 250, 10 gives 510
\* products and no request for page 4.
C2_State ==
  /\ \A j \in 1..Len(served) : served[j].page = j
  /\ \A j \in 1..(Len(served) - 1) : served[j].count = pageLimit
  /\ allProducts = ServedList(served)
  /\ Length(allProducts) = ServedCount(served)
  /\ reqPage <= Len(served) + 1
  /\ (served # <<>> /\ served[Len(served)].count < pageLimit)
       => /\ reqPage = Len(served)
          /\ Closed
  /\ (Len(served) = 3 /\ served[3].count = 10)
       => Length(allProducts) = 510 /\ reqPage = 3
C2_Step ==
  /\ reqPage' >= reqPage
  /\ reqPage' # reqPage
       => /\ reqPage' = reqPage + 1
          /\ reqPage > 0 => /\ Len(served') = reqPage
                            /\ served'[reqPage].count = pageLimit
C2_PagesInOrder == [](C2_State) /\ [][C2_Step]_vars
C2_Witness ==
  /\ Closed /\ Len(served) = 3 /\ served[3].count = 10
  /\ Length(allProducts) = 510 /\ reqPage = 3 /\ LastEvent.type = "done"

\* C3: a 400 for a page n > 1 ends the run successfully: a warning and no
\* error event, no further request, then complete with the count of pages
\* 1..n-1, their products and done.
C3_PaginationLimitStops ==
  (Closed /\ lastResponse.kind = "http" /\ lastResponse.status = 400 /\ reqPage > 1)
    => /\ ~HasEvent("error")
       /\ HasEvent("warning")
       /\ Len(served) = reqPage - 1
       /\ CountEvents("complete") = 1
       /\ \A k \in {CompleteIndex} :
            /\ events[k - 1].type = "warning"
            /\ events[k].count = ServedCount(served)
            /\ DeliveredFrom(k, ServedList(served))
C3_Witness ==
  /\ Closed /\ lastResponse.kind = "http" /\ lastResponse.status = 400
  /\ reqPage = 3 /\ LastEvent.type = "done" /\ HasEvent("warning")
  /\ Length(allProducts) = 2 * pageLimit

\* C4: a page request that ends in 404, in another non-2xx status that is
\* neither a 429 with retries left nor a 400 on a page > 1, or in a body
\* whose products field is not a list, makes the run emit exactly one error
\* event and no complete, products or done event, also after earlier pages
\* were fetched.
PermanentFailure(lr, rc, rp) ==
  /\ lr.kind = "http"
  /\ \/ /\ ~Ok(lr.status)
        /\ ~(lr.status = 429 /\ rc < maxRetries)
        /\ ~(lr.status = 400 /\ rp > 1)
     \/ lr.shape = "nolist"
C4_State ==
  (Closed /\ PermanentFailure(lastResponse, maxRetries, reqPage))
    => /\ CountEvents("error") = 1
       /\ LastEvent.type = "error"
       /\ ~HasEvent("complete") /\ ~HasEvent("products") /\ ~HasEvent("done")
C4_Step ==
  (spc = "fetch" /\ PermanentFailure(lastResponse', reqCount, reqPage))
    => /\ Closed'
       /\ events' = events \o <<events'[Len(events')]>>
       /\ events'[Len(events')].type = "error"
C4_PermanentFailureAborts == [](C4_State) /\ [][C4_Step]_vars
C4_Witness ==
  /\ Closed /\ lastResponse.kind = "http" /\ lastResponse.status = 404
  /\ Len(served) = 2 /\ Length(allProducts) = 2 * pageLimit
  /\ CountEvents("error") = 1 /\ ~HasEvent("done")

\* C5: fetchWithRetry issues at most 5 requests for a page, 429 answers and
\* network failures counted together, all for the same page (every page has
\* one fetchWithRetry call); when the fifth attempt answers 429 or fails, no
\* further request is made and the run ends with an error event.
C5_State == reqCount <= maxRetries /\ attempt < maxRetries
C5_Step ==
  /\ (reqCount' # reqCount /\ reqCount' > 1)
       => reqCount' = reqCount + 1 /\ reqPage' = reqPage
  /\ (reqCount' = 1 /\ reqCount # 1) => reqPage' = reqPage + 1
  /\ (spc = "fetch" /\ reqCount = maxRetries
        /\ (lastResponse'.kind = "neterr" \/ lastResponse'.status = 429))
       => /\ Closed' /\ events'[Len(events')].type = "error"
          /\ reqPage' = reqPage
  /\ Closed => UNCHANGED <<reqPage, reqCount>>
C5_BoundedRetries == [](C5_State) /\ [][C5_Step]_vars
C5_Witness ==
  /\ Closed /\ lastResponse.kind = "http" /\ lastResponse.status = 429
  /\ LastEvent.type = "error" /\ reqPage = 2

\* C6: against a source whose every page is full the run terminates: no page
\* beyond page 150 is requested, a warning and no error is emitted, and
\* complete, the accumulated products and done are delivered.
EveryPageFull ==
  /\ Len(served) = safetyPage
  /\ \A j \in 1..Len(served) : served[j].count = pageLimit
C6_State ==
  /\ reqPage <= safetyPage
  /\ page <= safetyPage + 1
  /\ (EveryPageFull /\ spc # "pageWait")
       => /\ Closed
          /\ HasEvent("warning") /\ ~HasEvent("error")
          /\ CountEvents("complete") = 1
          /\ \A k \in {CompleteIndex} :
               /\ DeliveredFrom(k, ServedList(served))
               /\ events[k].count = safetyPage * pageLimit
C6_Step == (EveryPageFull /\ spc = "pageWait") => Closed'
C6_SafetyCeiling == [](C6_State) /\ [][C6_Step]_vars
C6_Witness ==
  /\ Closed /\ EveryPageFull /\ LastEvent.type = "done"
  /\ Length(allProducts) = 37500 /\ reqPage = 150

\* C7: a successful run emits complete with the number of accumulated
\* products, then the products events with chunkIndex 0, 1, ...,
\* totalChunks - 1 in order, totalChunks = ceil(count / 100), every chunk of
\* at most 100 products and the chunks concatenated equal to the accumulated
\* list, then done; no products event when there is no product.
C7_ChunkedDelivery ==
  (Closed /\ LastEvent.type = "done")
    => /\ CountEvents("complete") = 1
       /\ \A k \in {CompleteIndex} :
            /\ DeliveredFrom(k, allProducts)
            /\ events[k].count = Length(allProducts)
            /\ \A i \in 1..(k - 1) :
                 events[i].type \notin {"complete", "products", "done"}
       /\ CountEvents("products") = Ceil(Length(allProducts), chunkSize)
       /\ Length(allProducts) = 0 => ~HasEvent("products")
C7_Witness ==
  /\ Closed /\ LastEvent.type = "done"
  /\ Length(allProducts) = 499 /\ CountEvents("products") = 5
  /\ Length(events[Len(events) - 1].chunk) = 99

\* ------------------------------------------------------------------------
\* Properties of an upload run
\* ------------------------------------------------------------------------
Returned == upc = "returned"
Total == Len(products)
Failing == {k \in 1..Total : outcome[k] \in {"userError", "thrown"}}
Succeeding == {k \in 1..Total : outcome[k] = "ok"}

\* the titles of the products of positions from.. whose creation failed
RECURSIVE FailedTitles(_)
FailedTitles(from) ==
  IF from > Total THEN <<>>
  ELSE (IF from \in Failing THEN <<products[from].title>> ELSE <<>>)
       \o FailedTitles(from + 1)

ErrorTitles == [j \in 1..Len(progress.errors) |-> progress.errors[j].productTitle]

InFlight == Cardinality({j \in 1..Len(tasks) : tasks[j].pc # "settled"})

\* C8: uploadProducts issues the creation call of every product exactly
\* once and counts every product exactly once: a product whose creation
\* fails (user error or thrown error) adds 1 to failed and one errors entry
\* with its title, every other product adds 1 to completed, and a failure
\* stops neither its batch nor the later batches; 3 products with product 2
\* failing give completed = 2, failed = 1 and one entry titled as product 2.
C8_EachProductOnce ==
  /\ upc # "off" => \A k \in 1..Total : created[k] <= 1
  /\ Returned =>
       /\ \A k \in 1..Total : created[k] = 1 /\ outcome[k] # "none"
       /\ progress.failed = Cardinality(Failing)
       /\ progress.completed = Cardinality(Succeeding)
       /\ ErrorTitles = FailedTitles(1)
       /\ (Total = 3 /\ Failing = {2})
            => /\ progress.completed = 2 /\ progress.failed = 1
               /\ Len(progress.errors) = 1
               /\ progress.errors[1].productTitle = products[2].title
C8_Witness ==
  /\ Returned /\ Total = 3 /\ batchSize = 2
  /\ outcome = <<"ok", "userError", "ok">>
  /\ progress.completed = 2 /\ progress.failed = 1
  /\ products[2].title = "B" /\ ErrorTitles = <<"B">>

\* C9: at every moment of an upload run completed + failed <= total,
\* neither counter ever decreases, errors has exactly failed entries, and
\* on return completed + failed = total.
C9_State ==
  upc # "off" =>
    /\ progress.total = Total
    /\ progress.completed + progress.failed <= progress.total
    /\ Len(progress.errors) = progress.failed
    /\ Returned => progress.completed + progress.failed = progress.total
C9_Step ==
  /\ progress'.completed >= progress.completed
  /\ progress'.failed >= progress.failed
C9_ProgressCounters == [](C9_State) /\ [][C9_Step]_vars
C9_Witness ==
  /\ Returned /\ Total = 3 /\ batches = 2
  /\ progress.completed = 1 /\ progress.failed = 2 /\ Len(progress.errors) = 2

\* C10: the batches run strictly in submission order with bounded fan-out:
\* a batch is submitted only when every product of the batch before it has
\* settled and the delay after that batch has elapsed, the products
\* submitted so far are a prefix of the list, the delay is taken after every
\* batch but the last, and never more than batchSize products are in flight.
C10_State ==
  upc # "off" =>
    /\ InFlight <= batchSize
    /\ Len(tasks) <= batchSize
    /\ upc = "batch" =>
         /\ delays = batches - 1
         /\ idx = (batches - 1) * batchSize
         /\ \A k \in 1..Total :
              created[k] = IF k <= idx + batchSize THEN 1 ELSE 0
         /\ \A k \in 1..idx : outcome[k] # "none"
    /\ upc = "delay" =>
         /\ delays = batches - 1
         /\ InFlight = 0
         /\ batches * batchSize < Total
    /\ Returned =>
         /\ batches = Ceil(Total, batchSize)
         /\ delays = Max(batches - 1, 0)
C10_Step ==
  /\ batches' # batches =>
       /\ batches' = batches + 1
       /\ InFlight = 0
       /\ batches > 0 => upc = "delay" /\ delays' = delays + 1
  /\ delays' # delays => upc = "delay" /\ upc' = "batch"
C10_BatchesInOrder == [](C10_State) /\ [][C10_Step]_vars
C10_Witness ==
  /\ upc = "batch" /\ batches = 2 /\ delays = 1 /\ batchSize = 2 /\ Total = 3
  /\ InFlight = 1 /\ created = <<1, 1, 1>>

\* the errors entries of the products of positions from.. whose creation
\* failed, in the order of the product list
RECURSIVE ExpectedErrors(_)
ExpectedErrors(from) ==
  IF from > Total THEN <<>>
  ELSE (IF from \in Failing
        THEN <<[productTitle |-> products[from].title,
                error |-> CreateResult(outcome[from]).error]>>
        ELSE <<>>)
       \o ExpectedErrors(from + 1)

\* the uploads of some batch settled in another order than the order of
\* the product list
OutOfOrder ==
  \E a, b \in 1..Len(settleOrder) : a < b /\ settleOrder[a] > settleOrder[b]

\* C11: the UploadProgress that uploadProducts returns is determined by the
\* product list and the outcome of each product alone, whatever the order
\* in which the uploads of a batch settle: completed and failed count the
\* products that succeeded and failed, and errors holds one entry per failed
\* product, with its title and message, in the order of the product list.
C11_OrderIndependent ==
  Returned =>
    /\ Len(settleOrder) = Total
    /\ progress.completed = Cardinality(Succeeding)
    /\ progress.failed = Cardinality(Failing)
    /\ progress.errors = ExpectedErrors(1)
C11_Witness ==
  /\ Returned /\ Total = 3 /\ batchSize = 3
  /\ OutOfOrder /\ settleOrder = <<3, 2, 1>>
  /\ outcome = <<"userError", "ok", "thrown">>
  /\ progress.completed = 1 /\ progress.failed = 2
  /\ progress.errors = <<[productTitle |-> products[1].title, error |-> "User Error"],
                         [productTitle |-> products[3].title, error |-> "Shopify API Error"]>>

\* ------------------------------------------------------------------------
\* Properties of the upload-scraped endpoint
\* ------------------------------------------------------------------------
Responded == rpc = "responded"

\* the places of a product list that break a rule of the validation
NoTitleSites(items) == {i \in 1..Len(items) : items[i].title = ""}
NoVariantsSites(items) ==
  {i \in 1..Len(items) : ~items[i].hasVariants \/ Len(items[i].prices) = 0}
NoPriceSites(items) ==
  UNION {{<<i, v>> : v \in {w \in 1..Len(items[i].prices) : items[i].prices[w] = ""}} :
           i \in 1..Len(items)}
ViolationCount(items) ==
  IF Len(items) = 0 THEN 1
  ELSE Cardinality(NoTitleSites(items)) + Cardinality(NoVariantsSites(items))
       + Cardinality(NoPriceSites(items))
Invalid(items) == ViolationCount(items) > 0
EntriesOf(d, k) == {j \in 1..Len(d) : d[j].kind = k}

\* C12: the endpoint validates before any call to the platform: for a
\* product list that is empty or holds a product without a title, without
\* variants or with a variant without a price, the response has
\* success = false and details holds exactly one entry for every violation
\* (every missing title, every product without variants, every variant
\* without a price), and uploadProducts is never called, so that no request
\* reaches the platform.
C12_ValidatesFirst ==
  /\ rpc = "request" => upc = "off"
  /\ (rpc # "off" /\ upc # "off") => (body.shape = "array" /\ ~Invalid(body.items))
  /\ (Responded /\ body.shape = "array" /\ Invalid(body.items))
       => /\ ~response.success
          /\ upc = "off" /\ created = <<>> /\ batches = 0
          /\ \A d \in {response.details} : \A items \in {body.items} :
               /\ Len(d) = ViolationCount(items)
               /\ Len(items) = 0 => d[1].kind = "no products"
               /\ \A i \in NoTitleSites(items) :
                    \E j \in EntriesOf(d, "missing title") : d[j].index = i - 1
               /\ Cardinality(EntriesOf(d, "no variants"))
                    = Cardinality(NoVariantsSites(items))
               /\ Cardinality(EntriesOf(d, "missing price"))
                    = Cardinality(NoPriceSites(items))
               /\ \A site \in NoPriceSites(items) :
                    \E j \in EntriesOf(d, "missing price") :
                      /\ d[j].title = items[site[1]].title
                      /\ d[j].variant = site[2] - 1
C12_Witness ==
  /\ Responded /\ body.shape = "array" /\ Len(body.items) = 2
  /\ body.items[1] = BodyProduct("", FALSE, <<>>, 0)
  /\ body.items[2] = BodyProduct("B", TRUE, <<"", "">>, 0)
  /\ ~response.success /\ response.status = 400
  /\ Len(response.details) = 4 /\ upc = "off"

\* C13: for every valid product list and every batchSize that the endpoint
\* forwards, zero included, uploadProducts terminates: once called, it
\* eventually returns its UploadProgress.
C13_UploadTerminates == (upc = "call") ~> (upc = "returned")

\* ------------------------------------------------------------------------
\* Properties of the scrape-stream handler as a whole
\* ------------------------------------------------------------------------
\* C14: no failure of a scrape-stream request escapes as an uncaught
\* exception (not an unparsable body, a failing source, a product without a
\* handle or a stream the client has closed): a request that does not end
\* with done ends with an error or a warning event on the stream.
C14_NoUncaughtFailure ==
  /\ ~uncaught
  /\ (spc \in {"closed", "rejected", "aborted"} /\ ~HasEvent("done"))
       => (HasEvent("error") \/ HasEvent("warning"))

\* ------------------------------------------------------------------------
\* Events and waits of the scrape-stream run
\* ------------------------------------------------------------------------
FullPages == {j \in 1..Len(served) : served[j].count = pageLimit}
NonEmptyPages == {j \in 1..Len(served) : served[j].count > 0}

C15_State ==
  /\ CountEvents("fetching") = reqPage
  /\ CountEvents("progress") = Cardinality(NonEmptyPages)
  /\ CountEvents("waiting") = Cardinality(FullPages)
  /\ spc = "pageWait" =>
       /\ LastEvent = EvWaiting(page, Length(allProducts))
       /\ LastEvent.delay = waitMs
  /\ spc = "retryWait" => LastEvent.type = "fetching"
C15_Step ==
  /\ (spc' = "retryWait" \/ spc = "retryWait") => events' = events
  /\ CountEvents("waiting")' # CountEvents("waiting")
       => /\ spc' = "pageWait"
          /\ CountEvents("waiting")' = CountEvents("waiting") + 1
CanonicalUrl(d, n) ==
  Https \o d \o ProductsJson \o <<"?">> \o Limit250 \o <<"&">> \o PageEq \o <<ToString(n)>>
QuestionMarks(str) == Cardinality({k \in 1..Len(str) : str[k] = "?"})

\* C16: for the normalized domain d and the page number n, the URL that is
\* requested is exactly https://d/products.json?limit=250&page=n, with a
\* single query string.
C16_CanonicalUrl ==
  dpc = "requested" =>
    /\ url = CanonicalUrl(cleanDomain, urlPage)
    /\ QuestionMarks(url) = 1

\* C19 as claimed: for every host name h, extractDomain returns the same
\* bare host for h alone and for h wrapped in any combination of a scheme,
\* a www. prefix, a port and a path.
C19_SameForEveryHost ==
  dpc = "normalized" => cleanDomain = ExtractDomain(raw.host)

\* C19 as amended: for every host name h that does not itself begin with
\* www., extractDomain returns h for h wrapped in any combination of an
\* http:// or https:// scheme, a www. prefix, a port and a trailing path.
C19_BareHost ==
  (dpc = "normalized" /\ ~StartsWith(raw.host, Www)) => cleanDomain = raw.host
C19_Witness ==
  /\ dpc = "normalized"
  /\ raw = Parts(Https, Www, <<"a", ".", "i", "o">>, <<":", "8", "0">>,
                 <<"/", "p", "/", "q", ":", "r">>)
  /\ cleanDomain = <<"a", ".", "i", "o">>

\* ------------------------------------------------------------------------
\* Properties of the scrape page
\* ------------------------------------------------------------------------
ErrorLinesRead == {i \in 1..readIdx : frames[i].type = "error"}

\* C17: when the stream delivers an error event, the scrape page raises an
\* alert that carries the error message, sets the scrape status to Failed
\* and does not switch to the upload tab.
C17_ErrorSurfaced ==
  \A i \in ErrorLinesRead :
    /\ \E a \in 1..Len(alerts) : alerts[a].detail = frames[i].error.text
    /\ scrapeStatus = "Failed"
    /\ activeTab = "scrape"

\* ------------------------------------------------------------------------
\* The wait before a retry
\* ------------------------------------------------------------------------
AllDigits(s) == s # <<>> /\ \A i \in 1..Len(s) : s[i] \in Digits
\* the number of seconds a Retry-After value states, NaN when it states none
SecondsOf(s) == IF AllDigits(s) THEN Num(ParseDigits(s, 0)) ELSE NaN
\* the wait the rule gives for a 429 on attempt k
RuleWait(h, k) ==
  IF h.present
  THEN (IF SecondsOf(h.text).nan THEN NaN ELSE Num(SecondsOf(h.text).val * 1000))
  ELSE Num(2000 * Pow2(k))
RateLimitedWait == spc = "retryWait" /\ lastResponse.status = 429

Uploaded1 == vpc = "returned" /\ vresult # <<>> /\ vresult[1].success
\* the fields of the requests that write to the default variant
DefaultVariantFields ==
  UNION {DOMAIN sent[k].input :
           k \in {j \in 1..Len(sent) :
                    sent[j].variant = 1
                    /\ sent[j].op \in {"productVariantsBulkUpdate", "inventoryItemUpdate"}}}

\* C20: after a successful product upload, the data sent for the default
\* variant sets the first scraped variant's price, SKU, weight, shipping and
\* tax settings.
C20_DefaultVariantData ==
  Uploaded1 =>
    /\ "price" \in DefaultVariantFields
    /\ Variants[1].sku # Undefined => "sku" \in DefaultVariantFields
    /\ {"weight", "requiresShipping", "taxable"} \subseteq DefaultVariantFields

\* the requests sent so far with operation op
SentOps(op) == {k \in 1..Len(sent) : sent[k].op = op}
\* productCreate was answered without error: the default variant was asked for
CreationSucceeded == SentOps("getProduct") # {}
\* the tally of uploadProducts over a batch that holds this one product
TallyOfOne ==
  Tally([total |-> 1, completed |-> 0, failed |-> 0, current |-> NoCurrent,
         errors |-> <<>>],
        <<[pc |-> "settled", result |-> vresult[1]]>>, <<[title |-> "A"]>>, 1)

\* C21: a product whose creation call succeeds is counted as completed and
\* never as failed, whatever happens in the later steps (default-variant
\* lookup, price update, SKU attachment, additional variants, images): no
\* errors entry is added and the failed counter stays.
C21_CreationDecides ==
  (vpc = "returned" /\ CreationSucceeded) =>
    /\ vresult = <<UploadSucceeded>>
    /\ TallyOfOne.completed = 1 /\ TallyOfOne.failed = 0
    /\ TallyOfOne.errors = <<>>
\* two variants, the price update was sent and no additional variant was
\* created: the price update failed, and the product is a success
C21_Witness ==
  /\ vpc = "returned" /\ CreationSucceeded /\ Len(Variants) = 2
  /\ SentOps("productVariantsBulkUpdate") # {}
  /\ SentOps("productVariantsBulkCreate") = {}
  /\ vresult = <<UploadSucceeded>>

\* the variants of the additional variant-creation calls, in sending order
RECURSIVE CreatedVariants(_)
CreatedVariants(k) ==
  IF k > Len(sent) THEN <<>>
  ELSE (IF sent[k].op = "productVariantsBulkCreate" THEN <<sent[k].variant>> ELSE <<>>)
       \o CreatedVariants(k + 1)
VariantStepsOver == vpc \in {"mediaDelay", "media", "returned"}

\* C22: when product creation succeeds for a product with m >= 1 variants,
\* exactly m - 1 additional variant-creation calls are issued, one for each
\* variant after the first and in variant order, even when the update of the
\* default variant or an earlier additional call came back with a user error.
C22_AllAdditionalVariants ==
  (VariantStepsOver /\ CreationSucceeded) =>
    CreatedVariants(1) = [k \in 1..(Len(Variants) - 1) |-> k + 1]

MediaCalls == SentOps("productCreateMedia")
C24_State ==
  /\ Cardinality(MediaCalls) <= 1
  /\ \A k \in MediaCalls :
       /\ CreationSucceeded /\ vprod[1].images > 0
       /\ sent[k].input.media = vprod[1].images
       /\ k = Len(sent) /\ vpc \in {"media", "returned"}
  /\ (vpc = "returned" /\ CreationSucceeded /\ vprod[1].images > 0) => MediaCalls # {}
C24_Step == (MediaCalls' # MediaCalls) => (vpc = "mediaDelay" /\ vpc' = "media")
\* C24: for each product with at least one image whose creation succeeds,
\* exactly one media-creation call carrying all of its images is issued, and
\* only after the creation call, all variant steps of the product and the
\* settle delay; a product without images or whose creation failed gets none.
C24_OneMediaCall == [](C24_State) /\ [][C24_Step]_vars
C24_Witness ==
  /\ vpc = "returned" /\ vprod[1].images = 2 /\ Cardinality(MediaCalls) = 1
  /\ CreatedVariants(1) = <<2>> /\ SentOps("inventoryItemUpdate") # {}

\* ------------------------------------------------------------------------
\* Waiting events and page requests
\* ------------------------------------------------------------------------
\* the pages named by the waiting events sent so far
WaitingPages == {events[i].page : i \in {j \in 1..Len(events) : events[j].type = "waiting"}}
C23_State ==
  /\ \A n \in 2..reqPage : n \in WaitingPages
  /\ spc = "pageWait" => (LastEvent = EvWaiting(page, Length(allProducts)) /\ waitMs = 3000)
  /\ spc # "pageWait" => \A n \in WaitingPages : n <= reqPage
C23_Step ==
  (reqPage' # reqPage /\ reqPage' > 1) =>
    /\ spc = "pageWait" /\ waitMs = 3000
    /\ reqPage' = LastEvent.page /\ reqPage' = reqPage + 1
\* C23: waiting events and next-page requests correspond one to one: every
\* request for a page n > 1 is preceded by a waiting event naming page n and
\* by the 3000 ms delay, and every waiting event naming page n is followed
\* by a request for page n.
C23_WaitingMatchesRequests == [](C23_State) /\ [][C23_Step]_vars

\* ------------------------------------------------------------------------
\* Properties of the JSON-Lines text
\* ------------------------------------------------------------------------
DoubleWhite(str) == \E k \in 1..(Len(str) - 1) : str[k] \in White /\ str[k + 1] \in White
Trimmed(str) == str = <<>> \/ (Head(str) \notin White /\ str[Len(str)] \notin White)

\* C26: for every description the text field is the description with the
\* tags removed, the named entities decoded, the ends trimmed and every run
\* of whitespace collapsed to one space: it contains no two consecutive
\* whitespace characters, and <p>Hello&nbsp;World</p> gives Hello World.
C26_CleanText ==
  tpc = "done" =>
    /\ ~DoubleWhite(txt) /\ Trimmed(txt)
    /\ html = HelloWorld =>
         txt = <<"H", "e", "l", "l", "o", " ", "W", "o", "r", "l", "d">>

\* ------------------------------------------------------------------------
\* The values passed to onProgress
\* ------------------------------------------------------------------------
DoneAfter(k) == Min(k * batchSize, Len(products))
C25_State ==
  \A k \in 1..Len(reports) :
    /\ reports[k].total = Len(products)
    /\ reports[k].completed + reports[k].failed = DoneAfter(k)
    /\ reports[k].current = products[DoneAfter(k)].title
    /\ Len(ErrorsSeen(k)) = reports[k].failed
C25_Step ==
  \A k \in 1..Len(reports) : reports'[k] = reports[k] /\ ErrorsSeen(k)' = ErrorsSeen(k)
\* C25: the value passed to onProgress at the end of batch k is a snapshot:
\* completed + failed = min(k x batchSize, total), current is the title of
\* the last product of the batch, and nothing the callback received (total,
\* completed, failed, current, the contents of errors) is changed by the
\* processing of later batches.
C25_ProgressSnapshot == [](C25_State) /\ [][C25_Step]_vars

\* ------------------------------------------------------------------------
\* Properties of deleteProducts
\* ------------------------------------------------------------------------
FailedAttempt(a) == a.outcome # "ok"
FailedAttempts == SelectSeq(attempts, FailedAttempt)
C27_State ==
  /\ Len(attempts) = xi /\ xi <= Len(productIds)
  /\ \A k \in 1..Len(attempts) : attempts[k].id = productIds[k]
  /\ results.successful + results.failed = xi
  /\ Len(results.errors) = results.failed
  /\ Len(FailedAttempts) = results.failed
  /\ \A k \in 1..Len(results.errors) : results.errors[k].productId = FailedAttempts[k].id
  /\ xpc = "returned" => xi = Len(productIds)
  /\ (xpc = "loop" /\ xi < Len(productIds)) => ENABLED DeleteOne
  /\ (xpc = "loop" /\ xi = Len(productIds)) => ENABLED DeleteReturns
C27_Step == xi' \in {xi, xi + 1} /\ productIds' = productIds
\* C27: deleteProducts attempts every given id exactly once, one after the
\* other in list order, never throws, and returns successful + failed = the
\* number of ids with exactly one errors entry, carrying the product id, per
\* failed deletion; a failed deletion does not stop the deletions after it.
C27_DeletesEveryId == [](C27_State) /\ [][C27_Step]_vars
C27_Witness ==
  /\ xpc = "returned" /\ Len(attempts) = 3
  /\ attempts[1].outcome = "userErrors" /\ attempts[2].outcome = "ok"
  /\ attempts[3].outcome = "thrown"
  /\ results.successful = 1 /\ results.failed = 2

\* ------------------------------------------------------------------------
\* Properties of the My Products page
\* ------------------------------------------------------------------------
\* C28: after any sequence of select, select-all, search, clear, load-more
\* and delete actions the selected ids are ids of displayed products, so a
\* delete request never names a product that is not displayed.
C28_SelectionDisplayed ==
  /\ selectedProducts \subseteq IdsOf(shown)
  /\ mpc = "deleting" => IdsOf(productIds) \subseteq IdsOf(shown)

DeletedIds == {attempts[k].id : k \in {j \in 1..Len(attempts) : attempts[j].outcome = "ok"}}
\* C29: when a delete request completes, the displayed list drops exactly
\* the products whose deletion succeeded; a product whose deletion is
\* reported as failed stays displayed.
C29_DropsDeletedOnly ==
  [][(mpc = "deleting" /\ mpc' = "idle")
       => shown' = SelectSeq(shown, LAMBDA x : x \notin DeletedIds)]_vars

\* ------------------------------------------------------------------------
\* Properties of the stream reader
\* ------------------------------------------------------------------------
\* the number of bytes that have been read
BytesRead == Len(Encode(frames)) - Len(wire)
\* the events whose line has been read up to its line feed
LinesRead == {k \in 1..Len(frames) : FrameLen * k - 1 <= BytesRead}
\* position of the complete event in the stream that is read
ReaderComplete == CHOOSE i \in 1..Len(frames) : frames[i].type = "complete"

\* C30: for every way the bytes of a successful event stream are split
\* across reads, the scrape page handles each server event exactly once and
\* in emission order (the events handled so far are, in order and unaltered,
\* exactly those whose line has been read), so after done the displayed
\* product list equals the concatenation of all products chunks in order and
\* its length equals the count announced by complete.
C30_EveryEventOnce ==
  kpc \in {"reading", "finished"} =>
    /\ Len(handled) = Cardinality(LinesRead)
    /\ \A j \in 1..Len(handled) : handled[j] = [ev |-> j, intact |-> TRUE]
    /\ (handled # <<>> /\ frames[Len(handled)].type = "done") =>
         /\ Canon(readerShown)
              = Canon(ConcatChunks(frames, ReaderComplete + 1, Len(frames) - 1))
         /\ Length(readerShown) = frames[ReaderComplete].count
    /\ kpc = "finished" => Len(handled) = Len(frames)

\* a read has ended inside a character of the line of the done event, after
\* every event before it was handled, two products events or more among
\* them
C30_Witness ==
  /\ kpc = "reading" /\ pending # <<>> /\ buffer # <<>>
  /\ Len(handled) = Len(frames) - 1
  /\ Cardinality({j \in 1..Len(handled) : frames[j].type = "products"}) >= 2
  /\ Length(readerAll) > chunkSize

====
